---- MODULE Spec2Model ----
(***************************************************************************)
(* genpkg 1.0: the build / install / remove lifecycle engine               *)
(* (src/genpkg1.0.py), as a state machine.                                 *)
(*                                                                         *)
(* One engine process runs one command at a time (main): it loads the      *)
(* manifest from disk, runs Installer.install / remove / upgrade /         *)
(* build_only step by step, and exits.  External commands, fetches and     *)
(* file-system operations may fail wherever the code lets them raise.      *)
(***************************************************************************)
EXTENDS Naturals, Sequences, FiniteSets, TLC

(***************************************************************************)
(* Bounds of the model.                                                    *)
(***************************************************************************)
MaxOps == 2

(***************************************************************************)
(* Strings.  A Python str is a sequence of characters; a path is a         *)
(* sequence of components (TLA+ strings); Chars spells a component out.    *)
(***************************************************************************)
Alphabet == << "-", ".", "/", "a", "b", "c", "e", "h", "i", "l", "m", "n", "o", "p", "r", "s", "t", "u", "v", "x" >>

Code(ch) == CHOOSE i \in 1..Len(Alphabet) : Alphabet[i] = ch

Chars(comp) ==
    CASE comp = "." -> << "." >>
      [] comp = ".." -> << ".", "." >>
      [] comp = "a" -> << "a" >>
      [] comp = "b" -> << "b" >>
      [] comp = "c" -> << "c" >>
      [] comp = "x" -> << "x" >>
      [] comp = "-x" -> << "-", "x" >>
      [] comp = "bin" -> << "b", "i", "n" >>
      [] comp = "etc" -> << "e", "t", "c" >>
      [] comp = "opt" -> << "o", "p", "t" >>
      [] comp = "optional" -> << "o", "p", "t", "i", "o", "n", "a", "l" >>
      [] comp = "home" -> << "h", "o", "m", "e" >>
      [] comp = "tmp" -> << "t", "m", "p" >>
      [] comp = "r" -> << "r" >>

RECURSIVE JoinFrom(_, _)
JoinFrom(p, i) ==
    IF i > Len(p) THEN << >>
    ELSE (IF i = 1 THEN << >> ELSE << "/" >>) \o Chars(p[i]) \o JoinFrom(p, i + 1)

\* str(Path(rel)) of a relative path; the empty path prints as "."
RelStr(p) == IF p = << >> THEN << "." >> ELSE JoinFrom(p, 1)

\* str(p) of an absolute path; the root prints as "/"
AbsStr(p) == IF p = << >> THEN << "/" >> ELSE << "/" >> \o JoinFrom(p, 1)

\* s.startswith(pre)
StartsWith(s, pre) == Len(pre) <= Len(s) /\ SubSeq(s, 1, Len(pre)) = pre

RECURSIVE StrLess(_, _)
\* s < t, Python's comparison of two str
StrLess(s, t) ==
    IF s = << >> THEN t # << >>
    ELSE IF t = << >> THEN FALSE
    ELSE IF Head(s) = Head(t) THEN StrLess(Tail(s), Tail(t))
    ELSE Code(Head(s)) < Code(Head(t))

\* len(s.split("/"))
SplitLen(s) == 1 + Cardinality({ i \in 1..Len(s) : s[i] = "/" })

RECURSIVE SortedStrs(_)
\* sorted(list(set)) of relative paths, compared as str
SortedStrs(S) ==
    IF S = {} THEN << >>
    ELSE LET m == CHOOSE x \in S : \A y \in S \ {x} : StrLess(RelStr(x), RelStr(y))
         IN << m >> \o SortedStrs(S \ {m})

Range(s) == { s[i] : i \in 1..Len(s) }

(***************************************************************************)
(* Path arithmetic.                                                        *)
(***************************************************************************)
RECURSIVE Resolve(_, _)
\* Path.resolve() over components: "." is dropped, ".." climbs (not above "/")
Resolve(acc, rest) ==
    IF rest = << >> THEN acc
    ELSE IF Head(rest) = "." THEN Resolve(acc, Tail(rest))
    ELSE IF Head(rest) = ".." THEN
        Resolve(IF acc = << >> THEN << >> ELSE SubSeq(acc, 1, Len(acc) - 1), Tail(rest))
    ELSE Resolve(Append(acc, Head(rest)), Tail(rest))

\* Path(name): "." components are dropped, ".." is kept
RECURSIVE PurePath(_)
PurePath(p) ==
    IF p = << >> THEN << >>
    ELSE IF Head(p) = "." THEN PurePath(Tail(p))
    ELSE << Head(p) >> \o PurePath(Tail(p))

IsPrefix(p, q) == Len(p) <= Len(q) /\ SubSeq(q, 1, Len(p)) = p
IsProperPrefix(p, q) == Len(p) < Len(q) /\ SubSeq(q, 1, Len(p)) = p

\* every proper ancestor directory of p, the root excluded
Ancestors(p) == { SubSeq(p, 1, k) : k \in 1..(Len(p) - 1) }


(***************************************************************************)
(* The manifest: DB.data, a dict (insertion-ordered) from package name to  *)
(* its record, modelled as the sequence of its items.                      *)
(***************************************************************************)
Keys(m) == { m[i].key : i \in 1..Len(m) }

Has(m, k) == k \in Keys(m)

Get(m, k) == m[CHOOSE i \in 1..Len(m) : m[i].key = k]

\* data[k] = e: an existing key keeps its position, a new key goes last
Put(m, e) ==
    IF Has(m, e.key)
    THEN [i \in 1..Len(m) |-> IF m[i].key = e.key THEN e ELSE m[i]]
    ELSE Append(m, e)

\* del data[k]
DelKey(m, k) == SelectSeq(m, LAMBDA e : e.key # k)

(***************************************************************************)
(* The file system: the regular files and the directories that exist,      *)
(* as absolute paths.                                                      *)
(***************************************************************************)
HasChild(fsys, p) == \E q \in fsys.files \cup fsys.dirs : IsProperPrefix(p, q)

\* the files below directory d, relative to d
FilesUnder(fsys, d) ==
    { SubSeq(q, Len(d) + 1, Len(q)) : q \in { f \in fsys.files : IsProperPrefix(d, f) } }

(***************************************************************************)
(* Archives.  A member is [abs, comps, type]; its name is the str          *)
(* tarfile reports (m.name).                                               *)
(***************************************************************************)
MemberName(m) == IF m.abs THEN AbsStr(m.comps) ELSE JoinFrom(m.comps, 1)

RECURSIVE CompLess(_, _)
\* the order in which tar.add walks a tree: a directory before its content,
\* the entries of a directory in sorted order
CompLess(p, q) ==
    IF p = << >> THEN q # << >>
    ELSE IF q = << >> THEN FALSE
    ELSE IF Head(p) = Head(q) THEN CompLess(Tail(p), Tail(q))
    ELSE StrLess(Chars(Head(p)), Chars(Head(q)))

RECURSIVE WalkOrder(_)
WalkOrder(S) ==
    IF S = {} THEN << >>
    ELSE LET m == CHOOSE x \in S : \A y \in S \ {x} : CompLess(x, y)
         IN << m >> \o WalkOrder(S \ {m})

\* the directories a set of staged files implies, the staging root included
StagedDirs(files) == {<< >>} \cup UNION { Ancestors(f) : f \in files }

\* package_destdir: tar.add(destdir, arcname=".")
package_destdir(files) ==
    LET order == WalkOrder(StagedDirs(files) \cup files)
    IN [i \in 1..Len(order) |->
          [abs |-> FALSE,
           comps |-> << "." >> \o order[i],
           type |-> IF order[i] \in files THEN "file" ELSE "dir"]]

\* where os.path.join(target_root, m.name) lands once the OS walks it
Target(root, m) == IF m.abs THEN Resolve(<< >>, m.comps) ELSE Resolve(root, m.comps)

\* TarFile.extract of one member: [fs, ok].  The extraction filter is the
\* default of the Python that runs the engine: "fully_trusted" up to 3.13,
\* "data" from 3.14 on, which refuses a member that lands outside root
ExtractOne(fsys, root, m, filter) ==
    LET t == Target(root, m)
        up == Ancestors(t) \cup (IF m.type = "dir" /\ t # << >> THEN {t} ELSE {})
    IN IF filter = "data" /\ ~IsPrefix(root, t)
       THEN [fs |-> fsys, ok |-> FALSE]
       ELSE IF \E a \in Ancestors(t) : a \in fsys.files
       THEN [fs |-> fsys, ok |-> FALSE]
       ELSE IF m.type = "dir"
       THEN (IF t \in fsys.files
             THEN [fs |-> [fsys EXCEPT !.dirs = @ \cup Ancestors(t)], ok |-> TRUE]
             ELSE [fs |-> [fsys EXCEPT !.dirs = @ \cup up], ok |-> TRUE])
       ELSE IF t \in fsys.dirs \/ t = << >>
       THEN [fs |-> [fsys EXCEPT !.dirs = @ \cup up], ok |-> FALSE]
       ELSE [fs |-> [files |-> fsys.files \cup {t}, dirs |-> fsys.dirs \cup up], ok |-> TRUE]

RECURSIVE ExtractAll(_, _, _, _, _, _)
\* tar.extractall: the members in archive order, stopping at the first error
\* or at the member where the I/O fails (failAt; 0 = nowhere): [fs, ok]
ExtractAll(fsys, root, members, i, failAt, filter) ==
    IF i > Len(members) THEN [fs |-> fsys, ok |-> TRUE]
    ELSE IF i = failAt THEN [fs |-> fsys, ok |-> FALSE]
    ELSE LET r == ExtractOne(fsys, root, members[i], filter)
         IN IF r.ok THEN ExtractAll(r.fs, root, members, i + 1, failAt, filter) ELSE r

\* a slip: only the first member is checked
NoAbsoluteFirstMember(members) ==
    members = << >> \/ ~StartsWith(MemberName(members[1]), << "/" >>)

\* the check before extraction: no member name starts with "/"
NoAbsoluteMember(members) ==
    \A i \in 1..Len(members) : ~StartsWith(MemberName(members[i]), << "/" >>)

\* the list install_package_files returns: sorted(set(str(Path(m.name))))
CreatedList(members) == SortedStrs({ PurePath(members[i].comps) : i \in 1..Len(members) })


(***************************************************************************)
(* Program constants.                                                      *)
(***************************************************************************)
\* ALLOWED_REMOVE_PREFIXES, as str
ALLOWED_REMOVE_PREFIXES ==
    { << "/", "u", "s", "r" >>, << "/", "e", "t", "c" >>, << "/", "v", "a", "r" >>,
      << "/", "o", "p", "t" >>, << "/", "b", "i", "n" >>, << "/", "s", "b", "i", "n" >>,
      << "/", "l", "i", "b" >>, << "/", "l", "i", "b", "6", "4" >>,
      << "/", "u", "s", "r", "/", "l", "o", "c", "a", "l" >> }

\* the subdirectories of a staging tree whose files copy_binaries_to_bindir copies
BinSubdirs == { << "usr", "bin" >>, << "bin" >>, << "usr", "sbin" >>, << "sbin" >> }

SysRoot == << >>
TestRoot == << "tmp", "r" >>

(***************************************************************************)
(* Recipes (class Recipe).  A recipe file is found by its file name; name  *)
(* is the field read from the document.  commands is the list of build     *)
(* commands, each given by the files it writes below DESTDIR; patches and  *)
(* the four hook lists are given by their lengths.                         *)
(***************************************************************************)
Recipe(name, deps, commands, hooks) ==
    [name |-> name, version |-> "1.0", deps |-> deps, commands |-> commands,
     patches |-> hooks, pre_install |-> hooks, post_install |-> hooks,
     pre_remove |-> hooks, post_remove |-> hooks]

NoFiles == [files |-> {}, dirs |-> {<< "tmp" >>, TestRoot}]

\* a diamond of dependencies; a is built by two commands and has hooks
Diamond ==
    [recipes |-> [a |-> Recipe("a", << "b", "c" >>, << {<< "bin", "a" >>}, {<< "etc", "a" >>} >>, 1),
                  b |-> Recipe("b", << "c" >>, << {<< "bin", "b" >>} >>, 0),
                  c |-> Recipe("c", << >>, << {<< "bin", "x" >>} >>, 0)],
     target_root |-> TestRoot, fs |-> NoFiles]

\* no dependencies; two packages install the same path; the root already
\* holds a file and a directory the packages also install
SharedPath ==
    [recipes |-> [a |-> Recipe("a", << >>, << {<< "bin", "x" >>, << "opt", "a" >>} >>, 0),
                  b |-> Recipe("b", << >>, << {<< "bin", "x" >>} >>, 0),
                  c |-> Recipe("c", << >>, << {<< "-x" >>} >>, 1)],
     target_root |-> TestRoot,
     fs |-> [files |-> {TestRoot \o << "bin", "x" >>},
             dirs |-> {<< "tmp" >>, TestRoot, TestRoot \o << "bin" >>, TestRoot \o << "opt" >>}]]

\* a chain of dependencies: a needs b, b needs c, and a does not name c
Chain ==
    [recipes |-> [a |-> Recipe("a", << "b" >>, << {<< "bin", "a" >>} >>, 0),
                  b |-> Recipe("b", << "c" >>, << {<< "bin", "b" >>} >>, 0),
                  c |-> Recipe("c", << >>, << {<< "bin", "x" >>} >>, 0)],
     target_root |-> TestRoot, fs |-> NoFiles]

\* installation into the real system root
IntoSysRoot ==
    [recipes |-> [a |-> Recipe("a", << >>, << {<< "opt", "a" >>, << "optional", "x" >>} >>, 0),
                  b |-> Recipe("b", << "a" >>, << {<< "home", "b" >>, << "etc", "b" >>} >>, 0)],
     target_root |-> SysRoot,
     fs |-> [files |-> {}, dirs |-> {<< "etc" >>, << "home" >>, << "tmp" >>}]]

\* the recipe sets, install roots and initial root contents explored
Worlds ==
    { Diamond,
      Chain,
      \* a cycle, and a package that lists itself
      [recipes |-> [a |-> Recipe("a", << "b" >>, << {<< "bin", "a" >>} >>, 0),
                    b |-> Recipe("b", << "a" >>, << {<< "bin", "b" >>} >>, 0),
                    c |-> Recipe("c", << "c" >>, << {<< "bin", "x" >>} >>, 0)],
       target_root |-> TestRoot, fs |-> NoFiles],
      \* a.yml holds name: z; c depends on a package that has no recipe
      [recipes |-> [a |-> Recipe("z", << >>, << {<< "bin", "a" >>} >>, 0),
                    b |-> Recipe("b", << "a" >>, << {<< "bin", "b" >>} >>, 0),
                    c |-> Recipe("c", << "m" >>, << {<< "bin", "x" >>} >>, 0)],
       target_root |-> TestRoot, fs |-> NoFiles],
      SharedPath,
      IntoSysRoot,
      \* two dependencies that do not need each other; a has two patches
      \* and two build commands
      [recipes |-> [a |-> [Recipe("a", << "b", "c" >>, << {<< "opt", "a" >>}, {<< "etc", "a" >>} >>, 0)
                              EXCEPT !.patches = 2],
                    b |-> Recipe("b", << >>, << {<< "bin", "b" >>} >>, 0),
                    c |-> Recipe("c", << >>, << {<< "bin", "x" >>} >>, 0)],
       target_root |-> TestRoot, fs |-> NoFiles] }

VARIABLES
    recipes,      \* the recipe files under RECIPES_DIR, by file name
    tar_filter,   \* the extraction filter tarfile applies by default
    archive,      \* the archive handed to install_package_files when it is run alone
    target_root,  \* Installer.target_root (--root)
    fs,           \* the file system the install root lives in
    destdir,      \* DESTDIR_BASE/<name>: the staged files of each staging directory
    packages,     \* PACKAGES_DIR/<name>-<version>.tar.gz: the members of each archive
    bindir,       \* the file names in BIN_DIR
    disk,         \* installed.json: the records a load reads from it
    torn,         \* installed.json holds a partial document, which no load can parse
    db,           \* DB.data of the running process
    pc,           \* the position of the running command
    op,           \* the command: [kind, arg]
    stack,        \* the frames of _install_with_deps: [name, i]
    visited,      \* the visited set of the running install
    cur,          \* the recipe file _build_and_install / build_only / remove works on
    cmdi,         \* the index of the next build command
    tmp,          \* locals: created_files, bin_copied, pkgfile
    queue,        \* upgrade --all: the packages still to process
    nops,         \* commands started so far
    maxops,       \* commands a behaviour runs at most
    result,       \* how the last command ended
    spinner,      \* the Spinner of the running call: _stop, _thread, the frame shown
    spin_pc,      \* the position of the spinner's thread in spin()
    rl_pc,        \* the position of the main thread in run_logged, when it is run alone
    rl_exc,       \* the exception run_logged is leaving with
    logs,         \* LOGS_DIR/<name>.log: the entries appended to each log file
    proc,         \* history: the external command the running command started last
    events,       \* history: the steps the running (or last) command executed
    disk0,        \* history: installed.json when the running (or last) command began
    fs0,          \* history: the file system when the running (or last) command began
    prev,         \* history: the command before, and how it ended
    v09,          \* version 0.9 of the engine (src/genpkg.py), run on the same commands
    other         \* a second engine process, while this one is scheduled: its locals

world == << recipes, target_root, maxops, tar_filter, archive, v09, other >>
store == << fs, destdir, packages, bindir >>
ctl == << pc, op, stack, visited, cur, cmdi, tmp, queue, nops, result >>
hist == << events, disk0, fs0, prev >>
spin == << spinner, spin_pc, rl_pc, rl_exc >>
vars == << recipes, target_root, maxops, tar_filter, archive, fs, destdir, packages, bindir, disk, torn, db, pc, op,
           stack, visited, cur, cmdi, tmp, queue, nops, result, spinner, spin_pc, rl_pc, rl_exc, logs, proc,
           events, disk0, fs0, prev, v09, other >>

RecipeFiles == DOMAIN recipes

\* the names a command may be given
ArgNames == RecipeFiles \cup { recipes[f].name : f \in RecipeFiles }

Top == stack[Len(stack)]

\* the names recipes carry: they name staging directories, archives and records
RecipeNames == { recipes[f].name : f \in RecipeFiles }

\* a staging directory: whether it exists, the files below it, and which of
\* them the last reset left in place
NoStaging == [exists |-> FALSE, files |-> {}, stale |-> {}]

\* if destdir.exists(): shutil.rmtree(destdir, ignore_errors=True), then
\* destdir.mkdir(parents=True, exist_ok=True).  rmtree deletes what it can
\* and reports nothing, so the files in kept are still there afterwards
ResetStaging(n, kept) ==
    destdir' = [destdir EXCEPT ![n] = [exists |-> TRUE, files |-> kept, stale |-> kept]]

NoTmp == [created |-> << >>, bins |-> {}]

\* Spinner.frames
SpinnerFrames == << "f1", "f2", "f3", "f4", "f5", "f6", "f7", "f8", "f9", "f10" >>

\* Spinner.__init__: the event is clear, there is no thread, no frame was shown
NewSpinner == [stop |-> FALSE, thread |-> "none", frame |-> 0]

\* a variable the engine leaves as os.environ has it
Inherited == "(inherited)"

\* os.environ, seen through the variables the engine may set
Environ == [DESTDIR |-> Inherited, GENPKG_NAME |-> Inherited, GENPKG_VERSION |-> Inherited]

\* env.update({...}) of _build_and_install; DESTDIR is str(DESTDIR_BASE / recipe.name),
\* written here as the name of the staging directory.  DESTDIR_BASE hangs
\* below BASE_DIR, which defaults to Path.cwd(), an absolute path
InstallEnv(r) == [Environ EXCEPT !.DESTDIR = r.name, !.GENPKG_NAME = r.name,
                                 !.GENPKG_VERSION = r.version]

\* env.update({"DESTDIR": str(destdir)}) of build_only
BuildOnlyEnv(r) == [Environ EXCEPT !.DESTDIR = r.name]

NoProc == [stage |-> "none", pkg |-> "none", n |-> 0, cwd |-> "none", env |-> Environ, ret |-> 0]

\* subprocess runs the n-th command of a stage for the package being worked
\* on, and the command ends with the exit status ret
Started(stage, n, cwd, env, ret) ==
    proc' = [stage |-> stage, pkg |-> cur, n |-> n, cwd |-> cwd, env |-> env, ret |-> ret]

\* what a log file holds for one command: its text, and its output when
\* the command ran with stdout and stderr redirected to the file
LogEntry(stage, n, output) == [stage |-> stage, pkg |-> cur, n |-> n, output |-> output]

\* open(log_file, "a") and a write
AppendLog(file, entry) == logs' = [logs EXCEPT ![file] = Append(@, entry)]
(***************************************************************************)
(* Version 0.9 of the engine (src/genpkg.py), run on the same commands.    *)
(* Its install runs no hooks and unpacks nothing into a root: what a       *)
(* command of 0.9 leaves is the mapping of installed.json and the packages *)
(* it built.  v09 holds both, for the case that every step of 0.9 succeeds *)
(* (a recipe that is not found still raises FileNotFoundError).            *)
(***************************************************************************)
\* RecipeManager.load: Package(data.get("nome", package_name), ...)
Name09(f) == recipes[f].name

\* _install_core: the build, then self.db.data[pkg.name] = {...} and save
InstallCore09(f, st) ==
    [st EXCEPT !.keys = IF Name09(f) \in Range(@) THEN @ ELSE Append(@, Name09(f)),
               !.builds = Append(@, f)]

RECURSIVE Walk09(_, _)
RECURSIVE Deps09(_, _, _)
\* _install_with_deps(pkg, visited): visited holds pkg.name; a dependency
\* is loaded and walked unless the mapping has it; pkg is built unless the
\* mapping has it
Walk09(f, st) ==
    IF ~st.ok \/ Name09(f) \in st.seen THEN st
    ELSE LET after == Deps09(f, 1, [st EXCEPT !.seen = @ \cup {Name09(f)}])
         IN IF ~after.ok \/ Name09(f) \in Range(after.keys) THEN after
            ELSE InstallCore09(f, after)

Deps09(f, i, st) ==
    IF i > Len(recipes[f].deps) \/ ~st.ok THEN st
    ELSE LET d == recipes[f].deps[i]
         IN Deps09(f, i + 1,
                   IF d \in Range(st.keys) THEN st
                   ELSE IF d \in RecipeFiles THEN Walk09(d, st)
                   ELSE [st EXCEPT !.ok = FALSE])

\* install(name): pkg = self.recipes.load(name), then the walk from pkg
Install09(n, st) ==
    IF ~st.ok THEN st
    ELSE IF n \in RecipeFiles THEN Walk09(n, [st EXCEPT !.seen = {}])
    ELSE [st EXCEPT !.ok = FALSE]

\* remove(name): nothing without a record; else del self.db.data[name] and save
Remove09(n, st) ==
    IF ~st.ok \/ n \notin Range(st.keys) THEN st
    ELSE [st EXCEPT !.keys = SelectSeq(@, LAMBDA k : k # n)]

RECURSIVE UpgradeEach09(_, _)
\* upgrade(None, all_pkgs = True): for p in pkgs: remove(p); install(p)
UpgradeEach09(pkgs, st) ==
    IF pkgs = << >> \/ ~st.ok THEN st
    ELSE UpgradeEach09(Tail(pkgs), Install09(Head(pkgs), Remove09(Head(pkgs), st)))

\* one command of 0.9, from the mapping its process loaded
Run09(kind, arg, st) ==
    CASE kind = "install" -> Install09(arg, st)
      [] kind = "remove" -> Remove09(arg, st)
      [] kind = "upgrade" -> Install09(arg, Remove09(arg, st))
      [] kind = "upgrade_all" -> UpgradeEach09(st.keys, st)
      [] OTHER -> st

\* 0.9 before its first command: installed.json holds no record
Fresh09 == [keys |-> << >>, builds |-> << >>, ok |-> TRUE, live |-> TRUE]

\* the two versions are no longer compared
Apart09 == [keys |-> << >>, builds |-> << >>, ok |-> TRUE, live |-> FALSE]

\* the commands the two versions share and the comparison follows
Commands09 == { "install", "remove", "upgrade", "upgrade_all" }

\* v09 after the next command.  The comparison ends with a command outside
\* Commands09 and after a command of 1.0 in which a step failed
Next09(kind, arg) ==
    IF ~v09.live \/ kind \notin Commands09 \/ result \notin { "none", "ok", "FileNotFoundError" }
    THEN Apart09
    ELSE LET st == Run09(kind, arg, [keys |-> v09.keys, builds |-> << >>, seen |-> {}, ok |-> TRUE])
         IN [keys |-> st.keys, builds |-> st.builds, ok |-> st.ok, live |-> TRUE]

NoOp == [kind |-> "none", arg |-> "none"]

\* a process that has not started its command: DB() has loaded nothing yet
Asleep(fsys) ==
    [id |-> 2, pc |-> "idle", op |-> NoOp, stack |-> << >>, visited |-> {}, cur |-> "none",
     cmdi |-> 0, tmp |-> NoTmp, queue |-> << >>, result |-> "none", db |-> << >>,
     proc |-> NoProc, events |-> << >>, disk0 |-> << >>, fs0 |-> fsys,
     prev |-> [kind |-> "none", arg |-> "none", result |-> "none", fs0 |-> fsys]]

StartIn(worlds, limit) ==
    /\ maxops = limit
    /\ tar_filter = "fully_trusted"
    /\ archive = << >>
    /\ \E w \in worlds :
          /\ recipes = w.recipes
          /\ target_root = w.target_root
          /\ fs = w.fs
    /\ destdir = [n \in RecipeNames |-> NoStaging]
    /\ packages = [n \in RecipeNames |-> << >>]
    /\ bindir = {}
    /\ disk = << >>
    /\ torn = FALSE
    /\ db = << >>
    /\ pc = "idle"
    /\ op = NoOp
    /\ stack = << >>
    /\ visited = {}
    /\ cur = "none"
    /\ cmdi = 0
    /\ tmp = NoTmp
    /\ queue = << >>
    /\ nops = 0
    /\ result = "none"
    /\ spinner = NewSpinner
    /\ spin_pc = "none"
    /\ rl_pc = "idle"
    /\ rl_exc = "none"
    /\ logs = [n \in ArgNames |-> << >>]
    /\ proc = NoProc
    /\ events = << >>
    /\ disk0 = << >>
    /\ fs0 = fs
    /\ prev = [kind |-> "none", arg |-> "none", result |-> "none", fs0 |-> fs]
    /\ v09 = Fresh09
    /\ other = Asleep(fs)

Init == StartIn(Worlds, MaxOps)

\* the same engine, observed over one more command in the recipe sets where
\* a third command finds what two commands left behind
InitLong == StartIn({Chain, SharedPath}, MaxOps + 1)


(***************************************************************************)
(* How a command ends.                                                     *)
(***************************************************************************)
\* the command returns, or an exception res leaves main: the process exits
Exit(res) ==
    /\ pc' = "idle"
    /\ result' = res
    /\ stack' = << >>
    /\ visited' = {}
    /\ cur' = "none"
    /\ cmdi' = 0
    /\ tmp' = NoTmp
    /\ queue' = << >>
    /\ UNCHANGED << op, nops >>

\* an external command, a fetch or a file operation fails: the exception
\* res leaves main
Fail(res) == Exit(res)

\* a step that changes only the position
Goto(p) ==
    /\ pc' = p
    /\ UNCHANGED << op, stack, visited, cur, cmdi, tmp, queue, nops, result >>

Log(step, file) == events' = Append(events, << step, file >>)

\* main: a new process loads the manifest and runs one command.  DB._load
\* returns the records of the file, and {} for a file it cannot parse
Begin(kind, arg) ==
    /\ pc = "idle"
    /\ nops < maxops
    /\ nops' = nops + 1
    /\ op' = [kind |-> kind, arg |-> arg]
    /\ prev' = [kind |-> op.kind, arg |-> op.arg, result |-> result, fs0 |-> fs0]
    /\ result' = "running"
    /\ db' = disk
    /\ events' = << >>
    /\ disk0' = disk
    /\ fs0' = fs
    /\ proc' = NoProc
    /\ v09' = Next09(kind, arg)
    /\ UNCHANGED << recipes, target_root, maxops, tar_filter, archive, other, spin, logs, store, disk, torn >>

\* a slip: the record is written and saved before the archive is unpacked
InstallStepsRecordBeforeUnpack ==
    << "pre_install", "fetch", "patch", "destdir", "build", "package", "copybin",
       "record", "save", "unpack", "post_install" >>

\* the statements of _build_and_install, in the order the code runs them
InstallSteps ==
    << "pre_install", "fetch", "patch", "destdir", "build", "package", "copybin",
       "unpack", "post_install", "record", "save" >>

\* the position after step p of a function whose steps are order; last when p ends it
StepAfter(order, p, last) ==
    LET i == CHOOSE j \in 1..Len(order) : order[j] = p
    IN IF i = Len(order) THEN last ELSE order[i + 1]

AfterInstallStep(p) == StepAfter(InstallSteps, p, "iwd_ret")

(***************************************************************************)
(* Installer.install and _install_with_deps                                *)
(***************************************************************************)
Install(n) ==
    /\ Begin("install", n)
    /\ pc' = "iwd"
    /\ stack' = << [name |-> n, i |-> 0] >>
    /\ visited' = {}
    /\ UNCHANGED << cur, cmdi, tmp, queue >>

\* a slip: the walk has no visited guard
IwdEnterWithoutGuard ==
    /\ pc = "iwd" /\ Top.i = 0
    /\ IF Top.name \notin RecipeFiles
       THEN Exit("FileNotFoundError")
       ELSE /\ visited' = visited \cup {Top.name}
            /\ stack' = [stack EXCEPT ![Len(stack)].i = 1]
            /\ UNCHANGED << pc, op, cur, cmdi, tmp, queue, nops, result >>
    /\ UNCHANGED << world, spin, logs, proc, store, disk, torn, db, hist >>

\* entry of _install_with_deps: the visited guard, then recipes.find
IwdEnter ==
    /\ pc = "iwd" /\ Top.i = 0
    /\ IF Top.name \in visited
       THEN Goto("iwd_ret")
       ELSE IF Top.name \notin RecipeFiles
       THEN Exit("FileNotFoundError")
       ELSE /\ visited' = visited \cup {Top.name}
            /\ stack' = [stack EXCEPT ![Len(stack)].i = 1]
            /\ UNCHANGED << pc, op, cur, cmdi, tmp, queue, nops, result >>
    /\ UNCHANGED << world, spin, logs, proc, store, disk, torn, db, hist >>

\* a slip: the dependencies are walked from the last to the first
IwdDepReversed ==
    /\ pc = "iwd" /\ Top.i >= 1 /\ Top.i <= Len(recipes[Top.name].deps)
    /\ LET deps == recipes[Top.name].deps
           d == deps[Len(deps) + 1 - Top.i]
           next == [stack EXCEPT ![Len(stack)].i = @ + 1]
       IN stack' = IF Has(db, d) THEN next ELSE Append(next, [name |-> d, i |-> 0])
    /\ UNCHANGED << pc, op, visited, cur, cmdi, tmp, queue, nops, result >>
    /\ UNCHANGED << world, spin, logs, proc, store, disk, torn, db, hist >>

\* for d in r.deps: if d not in self.db.data: self._install_with_deps(d, visited)
IwdDep ==
    /\ pc = "iwd" /\ Top.i >= 1 /\ Top.i <= Len(recipes[Top.name].deps)
    /\ LET d == recipes[Top.name].deps[Top.i]
           next == [stack EXCEPT ![Len(stack)].i = @ + 1]
       IN stack' = IF Has(db, d) THEN next ELSE Append(next, [name |-> d, i |-> 0])
    /\ UNCHANGED << pc, op, visited, cur, cmdi, tmp, queue, nops, result >>
    /\ UNCHANGED << world, spin, logs, proc, store, disk, torn, db, hist >>

\* a slip: the package is built also when the mapping has its record
IwdInstalledAlwaysBuilds ==
    /\ pc = "iwd" /\ Top.i >= 1 /\ Top.i > Len(recipes[Top.name].deps)
    /\ pc' = InstallSteps[1]
    /\ cur' = Top.name
    /\ tmp' = NoTmp
    /\ cmdi' = 0
    /\ events' = Append(events, << "begin", Top.name >>)
    /\ UNCHANGED << op, stack, visited, queue, nops, result >>
    /\ UNCHANGED << world, spin, logs, proc, store, disk, torn, db, disk0, fs0, prev >>

\* if name in self.db.data: return; else self._build_and_install(r)
IwdInstalled ==
    /\ pc = "iwd" /\ Top.i >= 1 /\ Top.i > Len(recipes[Top.name].deps)
    /\ IF Has(db, Top.name)
       THEN Goto("iwd_ret")
       ELSE /\ pc' = InstallSteps[1]
            /\ cur' = Top.name
            /\ tmp' = NoTmp
            /\ cmdi' = 0
            /\ UNCHANGED << op, stack, visited, queue, nops, result >>
    /\ events' = IF Has(db, Top.name) THEN events ELSE Append(events, << "begin", Top.name >>)
    /\ UNCHANGED << world, spin, logs, proc, store, disk, torn, db, disk0, fs0, prev >>

\* _install_with_deps returns to its caller
IwdReturn ==
    /\ pc = "iwd_ret"
    /\ IF Len(stack) > 1
       THEN /\ stack' = SubSeq(stack, 1, Len(stack) - 1)
            /\ pc' = "iwd"
            /\ UNCHANGED << op, visited, cur, cmdi, tmp, queue, nops, result >>
       ELSE IF op.kind = "upgrade_all"
       THEN /\ stack' = << >>
            /\ pc' = "up_next"
            /\ UNCHANGED << op, visited, cur, cmdi, tmp, queue, nops, result >>
       ELSE Exit("ok")
    /\ UNCHANGED << world, spin, logs, proc, store, disk, torn, db, hist >>


(***************************************************************************)
(* Installer._build_and_install(recipe), recipe = recipes[cur]             *)
(***************************************************************************)
\* run_hooks(hooks, stage, workdir, log_file): n is len(hooks).  The text of
\* a hook goes to the log file when one is given; the hook runs through
\* run_cmd with check=True, its output on the terminal
RunHooks(n, step, next, workdir, file) ==
    IF n = 0
    THEN Goto(next) /\ UNCHANGED << events, logs, proc >>
    ELSE /\ Log(step, cur)
         /\ IF file = "none" THEN UNCHANGED logs
            ELSE AppendLog(file, LogEntry(step, 1, FALSE))
         /\ \/ Goto(next) /\ Started(step, 1, workdir, Environ, 0)
            \/ Fail("CalledProcessError") /\ Started(step, 1, workdir, Environ, 1)

\* apply_patches(patch_urls, build_dir): patch -p1 for each URL in list
\* order, through run_cmd with check=True; nothing goes to the log file.
\* cmdi counts the patches applied
ApplyPatches(n, next) ==
    IF cmdi >= n
    THEN Goto(next) /\ UNCHANGED << events, proc >>
    ELSE /\ Log("patch", cur)
         /\ \/ /\ Started("patch", cmdi + 1, "src_dir", Environ, 0)
               /\ cmdi' = cmdi + 1
               /\ UNCHANGED << pc, op, stack, visited, cur, tmp, queue, nops, result >>
            \/ /\ Started("patch", cmdi + 1, "src_dir", Environ, 1)
               /\ Fail("CalledProcessError")

\* run_logged(cmd, cwd=src_dir, log_file, env) for the build command cmdi:
\* "$ cmd" is appended to the log file, then the command runs with its
\* stdout and stderr appended to the same file
RunLogged(file, env, ret) ==
    /\ Started("build", cmdi, "src_dir", env, ret)
    /\ AppendLog(file, LogEntry("build", cmdi, TRUE))

\* the files of a staging tree that copy_binaries_to_bindir copies, by name
BinNames(files) ==
    { f[Len(f)] : f \in { g \in files : SubSeq(g, 1, Len(g) - 1) \in BinSubdirs } }

\* the record _build_and_install stores
Record(r, file) ==
    [key |-> r.name,
     version |-> r.version,
     files |-> tmp.created,
     package_file |-> << r.name, r.version >>,
     destdir |-> r.name,
     bin_files |-> tmp.bins,
     installed_root |-> target_root,
     recipe_path |-> file]

PreInstall ==
    /\ pc = "pre_install"
    /\ RunHooks(recipes[cur].pre_install, "pre_install", AfterInstallStep("pre_install"),
                "BASE_DIR", recipes[cur].name)
    /\ UNCHANGED << world, spin, store, disk, torn, db, disk0, fs0, prev >>

\* git_download / http_download + extract_tar_any
Fetch ==
    /\ pc = "fetch"
    /\ Log("fetch", cur)
    /\ \/ Goto(AfterInstallStep("fetch"))
       \/ Fail("RuntimeError")
    /\ UNCHANGED << world, spin, logs, proc, store, disk, torn, db, disk0, fs0, prev >>

\* apply_patches: patch -p1 for each URL, check=True
Patch ==
    /\ pc = "patch"
    /\ ApplyPatches(recipes[cur].patches, AfterInstallStep("patch"))
    /\ UNCHANGED << world, spin, logs, store, disk, torn, db, disk0, fs0, prev >>

\* destdir = DESTDIR_BASE / recipe.name, removed and created again
PrepareDestdir ==
    /\ pc = "destdir"
    /\ \E kept \in SUBSET destdir[recipes[cur].name].files :
          ResetStaging(recipes[cur].name, kept)
    /\ pc' = AfterInstallStep("destdir")
    /\ cmdi' = 1
    /\ UNCHANGED << op, stack, visited, cur, tmp, queue, nops, result >>
    /\ UNCHANGED << world, spin, logs, proc, fs, packages, bindir, disk, torn, db, hist >>

\* a slip: the exit status of a build command is not looked at
BuildIgnoresExitStatus ==
    /\ pc = "build"
    /\ LET r == recipes[cur] IN
       IF cmdi > Len(r.commands)
       THEN Goto(AfterInstallStep("build")) /\ UNCHANGED << destdir, events, logs, proc >>
       ELSE /\ Log("build", cur)
            /\ \E ret \in {0, 1} :
                  /\ RunLogged(r.name, InstallEnv(r), ret)
                  /\ destdir' = IF ret = 0
                                THEN [destdir EXCEPT ![r.name].files = @ \cup r.commands[cmdi]]
                                ELSE destdir
                  /\ cmdi' = cmdi + 1
                  /\ UNCHANGED << pc, op, stack, visited, cur, tmp, queue, nops, result >>
    /\ UNCHANGED << world, spin, fs, packages, bindir, disk, torn, db, disk0, fs0, prev >>

\* for cmd in recipe.commands: run_logged(cmd, ...)
Build ==
    /\ pc = "build"
    /\ LET r == recipes[cur] IN
       IF cmdi > Len(r.commands)
       THEN Goto(AfterInstallStep("build")) /\ UNCHANGED << destdir, events, logs, proc >>
       ELSE /\ Log("build", cur)
            /\ \/ /\ RunLogged(r.name, InstallEnv(r), 0)
                  /\ destdir' = [destdir EXCEPT ![r.name].files = @ \cup r.commands[cmdi]]
                  /\ cmdi' = cmdi + 1
                  /\ UNCHANGED << pc, op, stack, visited, cur, tmp, queue, nops, result >>
               \/ /\ RunLogged(r.name, InstallEnv(r), 1)
                  /\ Fail("CalledProcessError")
                  /\ UNCHANGED destdir
    /\ UNCHANGED << world, spin, fs, packages, bindir, disk, torn, db, disk0, fs0, prev >>

\* pkgfile = package_destdir(name, version, destdir)
Package ==
    /\ pc = "package"
    /\ Log("package", cur)
    /\ \/ /\ packages' = [packages EXCEPT ![recipes[cur].name] =
                             package_destdir(destdir[recipes[cur].name].files)]
          /\ Goto(AfterInstallStep("package"))
       \/ /\ Fail("OSError")
          /\ UNCHANGED packages
    /\ UNCHANGED << world, spin, logs, proc, fs, destdir, bindir, disk, torn, db, disk0, fs0, prev >>

\* bin_copied = copy_binaries_to_bindir(destdir)
CopyBinaries ==
    /\ pc = "copybin"
    /\ LET names == BinNames(destdir[recipes[cur].name].files) IN
          /\ bindir' = bindir \cup names
          /\ tmp' = [tmp EXCEPT !.bins = names]
    /\ pc' = AfterInstallStep("copybin")
    /\ UNCHANGED << op, stack, visited, cur, cmdi, queue, nops, result >>
    /\ UNCHANGED << world, spin, logs, proc, fs, destdir, packages, disk, torn, db, hist >>

\* install_package_files(pkgfile, target_root): [fs, ok, created]
install_package_files(fsys, root, members, failAt, filter) ==
    IF ~NoAbsoluteMember(members)
    THEN [fs |-> fsys, ok |-> FALSE, err |-> "RuntimeError", created |-> << >>]
    ELSE LET x == ExtractAll(fsys, root, members, 1, failAt, filter)
         IN [fs |-> x.fs, ok |-> x.ok, err |-> "OSError",
             created |-> IF x.ok THEN CreatedList(members) ELSE << >>]

\* created_files = install_package_files(pkgfile, self.target_root)
Unpack ==
    /\ pc = "unpack"
    /\ \E failAt \in 0..Len(packages[recipes[cur].name]) :
          LET x == install_package_files(fs, target_root, packages[recipes[cur].name],
                                         failAt, tar_filter)
          IN /\ fs' = x.fs
             /\ IF x.ok
                THEN /\ tmp' = [tmp EXCEPT !.created = x.created]
                     /\ pc' = AfterInstallStep("unpack")
                     /\ events' = events \o << << "unpack", cur >>, << "unpacked", cur >> >>
                     /\ UNCHANGED << op, stack, visited, cur, cmdi, queue, nops, result >>
                ELSE Fail(x.err) /\ Log("unpack", cur)
    /\ UNCHANGED << world, spin, logs, proc, destdir, packages, bindir, disk, torn, db, disk0, fs0, prev >>

PostInstall ==
    /\ pc = "post_install"
    /\ RunHooks(recipes[cur].post_install, "post_install", AfterInstallStep("post_install"),
                "src_dir", recipes[cur].name)
    /\ UNCHANGED << world, spin, store, disk, torn, db, disk0, fs0, prev >>

\* self.db.data[name] = {...}
WriteRecord ==
    /\ pc = "record"
    /\ db' = Put(db, Record(recipes[cur], cur))
    /\ Log("record", cur)
    /\ Goto(AfterInstallStep("record"))
    /\ UNCHANGED << world, spin, logs, proc, store, disk, torn, disk0, fs0, prev >>

\* DB.save: open(path, "w") and json.dump.  The file is rewritten from
\* DB.data; or open raises and the file is as it was; or the write raises
\* after open has truncated the file, which leaves a partial document
SaveManifest(next) ==
    \/ /\ disk' = db
       /\ torn' = FALSE
       /\ Goto(next)
    \/ /\ Fail("OSError")
       /\ UNCHANGED << disk, torn >>
    \/ /\ Fail("OSError")
       /\ disk' = << >>
       /\ torn' = TRUE

\* a slip: save reads the file again and adds the records of the mapping to it
SaveInstalledMerges ==
    /\ pc = "save"
    /\ \/ /\ disk' = SelectSeq(disk, LAMBDA e : ~Has(db, e.key)) \o db
          /\ torn' = FALSE
          /\ Goto(AfterInstallStep("save"))
       \/ /\ Fail("OSError")
          /\ UNCHANGED << disk, torn >>
    /\ UNCHANGED << world, spin, logs, proc, store, db, hist >>

\* self.db.save(), the last statement of _build_and_install
SaveInstalled ==
    /\ pc = "save"
    /\ SaveManifest(AfterInstallStep("save"))
    /\ UNCHANGED << world, spin, logs, proc, store, db, hist >>


(***************************************************************************)
(* Installer.remove(name), name = cur                                      *)
(***************************************************************************)
Remove(n) ==
    /\ Begin("remove", n)
    /\ pc' = "rm_get"
    /\ cur' = n
    /\ UNCHANGED << stack, visited, cmdi, tmp, queue >>

\* remove returns to its caller: main, or upgrade, which goes on to install
RemoveReturns ==
    IF op.kind = "remove"
    THEN Exit("ok")
    ELSE /\ pc' = "iwd"
         /\ stack' = << [name |-> cur, i |-> 0] >>
         /\ visited' = {}
         /\ UNCHANGED << op, cur, cmdi, tmp, queue, nops, result >>

\* a slip: the record is deleted and saved first, the cleanup follows
RemoveStepsDeleteFirst ==
    << "rm_del", "rm_save", "rm_pre", "rm_files", "rm_bin", "rm_post", "rm_destdir" >>

\* the statements of remove that follow the lookup, in the order the code runs them
RemoveSteps == << "rm_pre", "rm_files", "rm_bin", "rm_post", "rm_destdir", "rm_del", "rm_save" >>

AfterRemoveStep(p) == StepAfter(RemoveSteps, p, "rm_ret")

\* a slip: meta = self.db.data[name], which raises for a name without record
RmGetRaises ==
    /\ pc = "rm_get"
    /\ IF Has(db, cur) THEN Goto(RemoveSteps[1]) ELSE Exit("KeyError")
    /\ UNCHANGED << world, spin, logs, proc, store, disk, torn, db, hist >>

\* meta = self.db.data.get(name); if not meta: return
\* a slip: remove saves the mapping also when it found no record
RmGetSavesAnyway ==
    /\ pc = "rm_get"
    /\ IF Has(db, cur) THEN Goto(RemoveSteps[1]) ELSE Goto("rm_save")
    /\ UNCHANGED << world, spin, logs, proc, store, disk, torn, db, hist >>

RmGet ==
    /\ pc = "rm_get"
    /\ IF Has(db, cur) THEN Goto(RemoveSteps[1]) ELSE RemoveReturns
    /\ UNCHANGED << world, spin, logs, proc, store, disk, torn, db, hist >>

\* the hooks of the recipe found under the name removed; none when find fails
RemoveHooks(pre) ==
    IF cur \in RecipeFiles
    THEN (IF pre THEN recipes[cur].pre_remove ELSE recipes[cur].post_remove)
    ELSE 0

RmPre ==
    /\ pc = "rm_pre"
    /\ RunHooks(RemoveHooks(TRUE), "pre_remove", AfterRemoveStep("rm_pre"), "BASE_DIR", "none")
    /\ UNCHANGED << world, spin, store, disk, torn, db, disk0, fs0, prev >>

RECURSIVE ByDepthFrom(_, _)
ByDepthFrom(files, d) ==
    IF d = 0 THEN << >>
    ELSE SelectSeq(files, LAMBDA p : SplitLen(RelStr(p)) = d) \o ByDepthFrom(files, d - 1)

\* sorted(files, key=lambda p: len(p.split("/")), reverse=True): stable
RemovalOrder(files) == ByDepthFrom(files, Len(files) + 2)

AllowedStrict(abs) ==
    \E pref \in ALLOWED_REMOVE_PREFIXES :
        \/ AbsStr(abs) = pref
        \/ StartsWith(AbsStr(abs), pref \o << "/" >>)

\* any(str(abs_path).startswith(pref) for pref in ALLOWED_REMOVE_PREFIXES)
Allowed(abs) == \E pref \in ALLOWED_REMOVE_PREFIXES : StartsWith(AbsStr(abs), pref)

\* one round of the removal loop, for the recorded path rel; the unlink of
\* the paths in bad raises, and the round swallows it
RemoveOne(fsys, root, rel, bad) ==
    LET abs == Resolve(root, rel)
    IN IF root = SysRoot /\ ~Allowed(abs) THEN fsys
       ELSE IF abs \in fsys.files
       THEN (IF rel \in bad THEN fsys ELSE [fsys EXCEPT !.files = @ \ {abs}])
       ELSE IF abs \in fsys.dirs /\ ~HasChild(fsys, abs) THEN [fsys EXCEPT !.dirs = @ \ {abs}]
       ELSE fsys

RECURSIVE RemoveFrom(_, _, _, _, _)
RemoveFrom(fsys, root, order, i, bad) ==
    IF i > Len(order) THEN fsys
    ELSE RemoveFrom(RemoveOne(fsys, root, order[i], bad), root, order, i + 1, bad)

\* the recorded paths at which a regular file lies
RecordedFiles(fsys, meta) ==
    { rel \in Range(meta.files) : Resolve(meta.installed_root, rel) \in fsys.files }

\* a slip: the first unlink that raises ends remove with its exception
RmFilesRaises ==
    /\ pc = "rm_files"
    /\ LET meta == Get(db, cur) IN
       \E bad \in SUBSET RecordedFiles(fs, meta) :
          /\ fs' = RemoveFrom(fs, meta.installed_root, RemovalOrder(meta.files), 1, bad)
          /\ events' = events \o << << "rm_files", cur >> >>
                           \o (IF bad = {} THEN << >> ELSE << << "rm_failed", cur >> >>)
          /\ IF bad = {} THEN Goto("rm_bin") ELSE Fail("OSError")
    /\ UNCHANGED << world, spin, logs, proc, destdir, packages, bindir, disk, torn, db, disk0, fs0, prev >>

\* the loop over the recorded files.  Any of the unlinks may raise (a file
\* in a directory that cannot be written): the paths in bad are those
RmFiles ==
    /\ pc = "rm_files"
    /\ LET meta == Get(db, cur) IN
       \E bad \in SUBSET RecordedFiles(fs, meta) :
          /\ fs' = RemoveFrom(fs, meta.installed_root, RemovalOrder(meta.files), 1, bad)
          /\ events' = events \o << << "rm_files", cur >> >>
                           \o (IF bad = {} THEN << >> ELSE << << "rm_failed", cur >> >>)
    /\ Goto(AfterRemoveStep("rm_files"))
    /\ UNCHANGED << world, spin, logs, proc, destdir, packages, bindir, disk, torn, db, disk0, fs0, prev >>

\* for b in meta["bin_files"]: Path(b).unlink(missing_ok=True)
RmBin ==
    /\ pc = "rm_bin"
    /\ bindir' = bindir \ Get(db, cur).bin_files
    /\ Goto(AfterRemoveStep("rm_bin"))
    /\ UNCHANGED << world, spin, logs, proc, fs, destdir, packages, disk, torn, db, hist >>

\* a slip: the exit status of a post_remove hook is not looked at
RmPostIgnoresExitStatus ==
    /\ pc = "rm_post"
    /\ IF RemoveHooks(FALSE) = 0
       THEN Goto(AfterRemoveStep("rm_post")) /\ UNCHANGED << events, proc >>
       ELSE /\ Log("post_remove", cur)
            /\ Goto(AfterRemoveStep("rm_post"))
            /\ \E ret \in {0, 1} : Started("post_remove", 1, "BASE_DIR", Environ, ret)
    /\ UNCHANGED << world, spin, logs, store, disk, torn, db, disk0, fs0, prev >>

RmPost ==
    /\ pc = "rm_post"
    /\ RunHooks(RemoveHooks(FALSE), "post_remove", AfterRemoveStep("rm_post"), "BASE_DIR", "none")
    /\ UNCHANGED << world, spin, store, disk, torn, db, disk0, fs0, prev >>

\* shutil.rmtree(meta["destdir"], ignore_errors=True)
RmDestdir ==
    /\ pc = "rm_destdir"
    /\ destdir' = [destdir EXCEPT ![Get(db, cur).destdir] = NoStaging]
    /\ Goto(AfterRemoveStep("rm_destdir"))
    /\ UNCHANGED << world, spin, logs, proc, fs, packages, bindir, disk, torn, db, hist >>

\* a slip: the records of the packages that depend on the name go with it
RmDeleteWithDependents ==
    /\ pc = "rm_del"
    /\ db' = SelectSeq(db, LAMBDA e : e.key # cur /\
                         ~(e.key \in DOMAIN recipes /\
                           cur \in { recipes[e.key].deps[i] : i \in 1..Len(recipes[e.key].deps) }))
    /\ Log("delete", cur)
    /\ Goto(AfterRemoveStep("rm_del"))
    /\ UNCHANGED << world, spin, logs, proc, store, disk, torn, disk0, fs0, prev >>

\* del self.db.data[name]
RmDelete ==
    /\ pc = "rm_del"
    /\ db' = DelKey(db, cur)
    /\ Log("delete", cur)
    /\ Goto(AfterRemoveStep("rm_del"))
    /\ UNCHANGED << world, spin, logs, proc, store, disk, torn, disk0, fs0, prev >>

\* self.db.save()
RmSave ==
    /\ pc = "rm_save"
    /\ SaveManifest(AfterRemoveStep("rm_save"))
    /\ UNCHANGED << world, spin, logs, proc, store, db, hist >>

\* remove returns after its last statement
RmReturn ==
    /\ pc = "rm_ret"
    /\ RemoveReturns
    /\ UNCHANGED << world, spin, logs, proc, store, disk, torn, db, hist >>

(***************************************************************************)
(* Installer.upgrade(name, all_pkgs)                                       *)
(***************************************************************************)
\* a slip: upgrade goes to install with the old record still in place
UpgradeWithoutRemove(n) ==
    /\ Begin("upgrade", n)
    /\ cur' = n
    /\ pc' = "iwd"
    /\ stack' = << [name |-> n, i |-> 0] >>
    /\ visited' = {}
    /\ UNCHANGED << cmdi, tmp, queue >>

\* upgrade(name, False): remove(name) if it is recorded, then install(name)
Upgrade(n) ==
    /\ Begin("upgrade", n)
    /\ cur' = n
    /\ IF Has(disk, n)
       THEN pc' = "rm_get" /\ UNCHANGED << stack, visited >>
       ELSE /\ pc' = "iwd"
            /\ stack' = << [name |-> n, i |-> 0] >>
            /\ visited' = {}
    /\ UNCHANGED << cmdi, tmp, queue >>

\* a slip: the loop walks the keys in reverse order
UpgradeAllReversed ==
    /\ Begin("upgrade_all", "all")
    /\ pc' = "up_next"
    /\ queue' = [i \in 1..Len(disk) |-> disk[Len(disk) + 1 - i].key]
    /\ UNCHANGED << stack, visited, cur, cmdi, tmp >>

\* upgrade(None, True): for pkg in list(self.db.data.keys())
UpgradeAll ==
    /\ Begin("upgrade_all", "all")
    /\ pc' = "up_next"
    /\ queue' = [i \in 1..Len(disk) |-> disk[i].key]
    /\ UNCHANGED << stack, visited, cur, cmdi, tmp >>

\* the head of the loop: remove(pkg), then install(pkg)
UpNext ==
    /\ pc = "up_next"
    /\ IF queue = << >>
       THEN Exit("ok")
       ELSE /\ cur' = Head(queue)
            /\ queue' = Tail(queue)
            /\ pc' = "rm_get"
            /\ UNCHANGED << op, stack, visited, cmdi, tmp, nops, result >>
    /\ UNCHANGED << world, spin, logs, proc, store, disk, torn, db, hist >>

(***************************************************************************)
(* Installer.build_only(name)                                              *)
(***************************************************************************)
BuildOnly(n) ==
    /\ Begin("build_only", n)
    /\ pc' = "bo_find"
    /\ cur' = n
    /\ UNCHANGED << stack, visited, cmdi, tmp, queue >>


\* r = self.recipes.find(name)
BoFind ==
    /\ pc = "bo_find"
    /\ IF cur \in RecipeFiles THEN Goto("bo_fetch") ELSE Exit("FileNotFoundError")
    /\ UNCHANGED << world, spin, logs, proc, store, disk, torn, db, hist >>

BoFetch ==
    /\ pc = "bo_fetch"
    /\ Log("fetch", cur)
    /\ \/ Goto("bo_patch")
       \/ Fail("RuntimeError")
    /\ UNCHANGED << world, spin, logs, proc, store, disk, torn, db, disk0, fs0, prev >>

BoPatch ==
    /\ pc = "bo_patch"
    /\ ApplyPatches(recipes[cur].patches, "bo_destdir")
    /\ UNCHANGED << world, spin, logs, store, disk, torn, db, disk0, fs0, prev >>

BoPrepareDestdir ==
    /\ pc = "bo_destdir"
    /\ \E kept \in SUBSET destdir[recipes[cur].name].files :
          ResetStaging(recipes[cur].name, kept)
    /\ pc' = "bo_build"
    /\ cmdi' = 1
    /\ UNCHANGED << op, stack, visited, cur, tmp, queue, nops, result >>
    /\ UNCHANGED << world, spin, logs, proc, fs, packages, bindir, disk, torn, db, hist >>

BoBuild ==
    /\ pc = "bo_build"
    /\ LET r == recipes[cur] IN
       IF cmdi > Len(r.commands)
       THEN Goto("bo_package") /\ UNCHANGED << destdir, events, logs, proc >>
       ELSE /\ Log("build", cur)
            /\ \/ /\ RunLogged(cur, BuildOnlyEnv(r), 0)
                  /\ destdir' = [destdir EXCEPT ![r.name].files = @ \cup r.commands[cmdi]]
                  /\ cmdi' = cmdi + 1
                  /\ UNCHANGED << pc, op, stack, visited, cur, tmp, queue, nops, result >>
               \/ /\ RunLogged(cur, BuildOnlyEnv(r), 1)
                  /\ Fail("CalledProcessError")
                  /\ UNCHANGED destdir
    /\ UNCHANGED << world, spin, fs, packages, bindir, disk, torn, db, disk0, fs0, prev >>

\* a slip: after packaging, build_only goes on with the rest of the install pipeline
BoPackageThenInstalls ==
    /\ pc = "bo_package"
    /\ Log("package", cur)
    /\ \/ /\ packages' = [packages EXCEPT ![recipes[cur].name] =
                             package_destdir(destdir[recipes[cur].name].files)]
          /\ Goto(AfterInstallStep("package"))
       \/ /\ Fail("OSError")
          /\ UNCHANGED packages
    /\ UNCHANGED << world, spin, logs, proc, fs, destdir, bindir, disk, torn, db, disk0, fs0, prev >>

\* pkgfile = package_destdir(r.name, r.version, destdir)
BoPackage ==
    /\ pc = "bo_package"
    /\ Log("package", cur)
    /\ \/ /\ packages' = [packages EXCEPT ![recipes[cur].name] =
                             package_destdir(destdir[recipes[cur].name].files)]
          /\ Exit("ok")
       \/ /\ Fail("OSError")
          /\ UNCHANGED packages
    /\ UNCHANGED << world, spin, logs, proc, fs, destdir, bindir, disk, torn, db, disk0, fs0, prev >>

(***************************************************************************)
(* The engine.                                                             *)
(***************************************************************************)
Next ==
    \/ \E n \in ArgNames : Install(n)
    \/ \E n \in ArgNames : Remove(n)
    \/ \E n \in ArgNames : Upgrade(n)
    \/ UpgradeAll
    \/ \E n \in ArgNames : BuildOnly(n)
    \/ IwdEnter
    \/ IwdDep
    \/ IwdInstalled
    \/ IwdReturn
    \/ PreInstall
    \/ Fetch
    \/ Patch
    \/ PrepareDestdir
    \/ Build
    \/ Package
    \/ CopyBinaries
    \/ Unpack
    \/ PostInstall
    \/ WriteRecord
    \/ SaveInstalled
    \/ RmGet
    \/ RmPre
    \/ RmFiles
    \/ RmBin
    \/ RmPost
    \/ RmDestdir
    \/ RmDelete
    \/ RmSave
    \/ RmReturn
    \/ UpNext
    \/ BoFind
    \/ BoFetch
    \/ BoPatch
    \/ BoPrepareDestdir
    \/ BoBuild
    \/ BoPackage

Spec == Init /\ [][Next]_vars

\* the steps of a command that has begun: everything but the start of a command
Run ==
    \/ IwdEnter \/ IwdDep \/ IwdInstalled \/ IwdReturn
    \/ PreInstall \/ Fetch \/ Patch \/ PrepareDestdir \/ Build \/ Package
    \/ CopyBinaries \/ Unpack \/ PostInstall \/ WriteRecord \/ SaveInstalled
    \/ RmGet \/ RmPre \/ RmFiles \/ RmBin \/ RmPost \/ RmDestdir \/ RmDelete
    \/ RmSave \/ RmReturn \/ UpNext
    \/ BoFind \/ BoFetch \/ BoPatch \/ BoPrepareDestdir \/ BoBuild \/ BoPackage

\* a command has begun and has not ended; a step of Run is enabled exactly then
Running == pc # "idle"

\* weak fairness of Run, WF_vars(Run), which is
\* []<>~ENABLED <<Run>>_vars \/ []<><<Run>>_vars, with the enabling condition
\* written as the state predicate it equals
Scheduled == []<>(~Running) \/ []<><<Run>>_vars

\* the engine with its process scheduled: a command that has begun goes on
\* until it ends (every external command and every fetch ends)
SpecLive == Init /\ [][Next]_vars /\ Scheduled

SpecLong == InitLong /\ [][Next]_vars

(***************************************************************************)
(* Two engine processes.  Each is one run of main with its own DB object   *)
(* and its own locals; the file system, the staging trees, the logs and    *)
(* installed.json are shared.  The variables of the command hold the       *)
(* process that is running, other holds the one that waits, and Switch is  *)
(* the operating system giving the processor to the other one.             *)
(***************************************************************************)
\* the locals of the running process
Locals ==
    [id |-> 3 - other.id, pc |-> pc, op |-> op, stack |-> stack, visited |-> visited, cur |-> cur,
     cmdi |-> cmdi, tmp |-> tmp, queue |-> queue, result |-> result, db |-> db,
     proc |-> proc, events |-> events, disk0 |-> disk0, fs0 |-> fs0, prev |-> prev]

Switch ==
    /\ other' = Locals
    /\ pc' = other.pc
    /\ op' = other.op
    /\ stack' = other.stack
    /\ visited' = other.visited
    /\ cur' = other.cur
    /\ cmdi' = other.cmdi
    /\ tmp' = other.tmp
    /\ queue' = other.queue
    /\ result' = other.result
    /\ db' = other.db
    /\ proc' = other.proc
    /\ events' = other.events
    /\ disk0' = other.disk0
    /\ fs0' = other.fs0
    /\ prev' = other.prev
    /\ UNCHANGED << recipes, target_root, maxops, tar_filter, archive, v09, store, disk, torn, logs,
                    nops, spin >>

\* main of a process that runs install n, while the other process runs, has
\* run or will run the install of another package
InstallBeside(n) ==
    /\ op = NoOp
    /\ other.op.arg # n
    /\ Install(n)

InitTwo == StartIn({IntoSysRoot, SharedPath}, MaxOps)

NextTwo ==
    \/ \E n \in ArgNames : InstallBeside(n)
    \/ Switch
    \/ IwdEnter
    \/ IwdDep
    \/ IwdInstalled
    \/ IwdReturn
    \/ PreInstall
    \/ Fetch
    \/ Patch
    \/ PrepareDestdir
    \/ Build
    \/ Package
    \/ CopyBinaries
    \/ Unpack
    \/ PostInstall
    \/ WriteRecord
    \/ SaveInstalled

SpecTwo == InitTwo /\ [][NextTwo]_vars


(***************************************************************************)
(* install_package_files run alone, on any archive: the archives the       *)
(* engine packs itself hold only "./..." members, this function accepts    *)
(* whatever file lies at the archive's path.                               *)
(***************************************************************************)
MaxMembers == 3

\* the members archives are made of
Members ==
    { [abs |-> FALSE, comps |-> << "." >>, type |-> "dir"],
      [abs |-> FALSE, comps |-> << ".", "bin" >>, type |-> "dir"],
      [abs |-> FALSE, comps |-> << ".", "bin", "x" >>, type |-> "file"],
      [abs |-> FALSE, comps |-> << "a" >>, type |-> "file"],
      [abs |-> TRUE, comps |-> << "etc", "x" >>, type |-> "file"],
      [abs |-> FALSE, comps |-> << "..", "x" >>, type |-> "file"] }

Archives == UNION { [1..n -> Members] : n \in 0..MaxMembers }

\* the install root before the call: empty, or holding a file of the archive
RootContents ==
    { NoFiles, [NoFiles EXCEPT !.files = {TestRoot \o << "a" >>}] }

InitUnpack ==
    /\ maxops = 1
    /\ tar_filter \in {"fully_trusted", "data"}
    /\ archive \in Archives
    /\ recipes = [a |-> Recipe("a", << >>, << {<< "a" >>} >>, 0)]
    /\ target_root = TestRoot
    /\ fs \in RootContents
    /\ destdir = [n \in RecipeNames |-> NoStaging]
    /\ packages = [n \in RecipeNames |-> << >>]
    /\ bindir = {}
    /\ disk = << >>
    /\ torn = FALSE
    /\ db = << >>
    /\ pc = "idle"
    /\ op = NoOp
    /\ stack = << >>
    /\ visited = {}
    /\ cur = "none"
    /\ cmdi = 0
    /\ tmp = NoTmp
    /\ queue = << >>
    /\ nops = 0
    /\ result = "none"
    /\ spinner = NewSpinner
    /\ spin_pc = "none"
    /\ rl_pc = "idle"
    /\ rl_exc = "none"
    /\ logs = [n \in ArgNames |-> << >>]
    /\ proc = NoProc
    /\ events = << >>
    /\ disk0 = << >>
    /\ fs0 = fs
    /\ prev = [kind |-> "none", arg |-> "none", result |-> "none", fs0 |-> fs]
    /\ v09 = Fresh09
    /\ other = Asleep(fs)

\* one call install_package_files(archive, target_root)
UnpackArchive ==
    /\ pc = "idle"
    /\ nops < maxops
    /\ nops' = nops + 1
    /\ op' = [kind |-> "unpack", arg |-> "none"]
    /\ \E failAt \in 0..Len(archive) :
          LET x == install_package_files(fs, target_root, archive, failAt, tar_filter)
          IN /\ fs' = x.fs
             /\ tmp' = [tmp EXCEPT !.created = x.created]
             /\ result' = IF x.ok THEN "ok" ELSE x.err
    /\ UNCHANGED << world, spin, logs, proc, destdir, packages, bindir, disk, torn, db, pc, stack, visited,
                    cur, cmdi, queue, hist >>

NextUnpack == UnpackArchive

SpecUnpack == InitUnpack /\ [][NextUnpack]_vars


(***************************************************************************)
(* Vocabulary of the properties.                                           *)
(***************************************************************************)
\* the direct dependencies a recipe file lists
DepsOf(f) == IF f \in RecipeFiles THEN Range(recipes[f].deps) ELSE {}

RECURSIVE Closure(_, _)
\* S with everything reachable from it along dependencies (k rounds)
Closure(S, k) ==
    IF k = 0 THEN S ELSE Closure(S \cup UNION { DepsOf(f) : f \in S }, k - 1)

\* what n depends on, directly or not
DepClosure(n) == Closure(DepsOf(n), Cardinality(RecipeFiles))

\* the dependency chain of n runs into a cycle
CyclicChain(n) == \E m \in {n} \cup DepClosure(n) : m \in DepClosure(m)

\* every recipe carries the name of its file, and every dependency has a recipe
NamesMatch ==
    /\ \A f \in RecipeFiles : recipes[f].name = f
    /\ \A f \in RecipeFiles : DepsOf(f) \subseteq RecipeFiles

Acyclic == \A f \in RecipeFiles : ~CyclicChain(f)

\* the steps of a build pipeline that the history records
PipelineEvents == { "begin", "pre_install", "fetch", "patch", "build", "package", "unpack",
                    "unpacked", "post_install", "record" }

RanPipeline == \E i \in 1..Len(events) : events[i][1] \in PipelineEvents

\* remove could not delete one of the files it was to delete
DeletionFailed == \E i \in 1..Len(events) : events[i][1] = "rm_failed"

\* the running (or last) command is Install(n) and has not failed
InstallNotFailed == op.kind = "install" /\ result \in {"running", "ok"}

(***************************************************************************)
(* C1. Install is idempotent: an Install(name) that immediately follows a  *)
(* successful Install(name) runs no step of the build pipeline, does not   *)
(* fail, and leaves the manifest, in memory and on disk, as it found it.   *)
(***************************************************************************)
C1_SecondInstallIsNoOp ==
    (op.kind = "install" /\ prev = [kind |-> "install", arg |-> op.arg, result |-> "ok",
                                    fs0 |-> prev.fs0])
        => /\ ~RanPipeline
           /\ result \in {"running", "ok"}
           /\ db = disk0
           /\ disk = disk0

\* the same, for recipe sets in which every recipe carries its file's name
C1_WhenNamesMatch == NamesMatch => C1_SecondInstallIsNoOp

\* a second Install(name) has returned after a first one built the package
C1_Witness ==
    /\ pc = "idle" /\ op.kind = "install" /\ result = "ok"
    /\ prev.kind = "install" /\ prev.arg = op.arg /\ prev.result = "ok"
    /\ Has(disk, op.arg) /\ DepsOf(op.arg) # {}

(***************************************************************************)
(* C2. Whenever a record for name exists, Install(name) is a no-op: it     *)
(* runs no build pipeline for any package, its dependencies included,      *)
(* raises no error and leaves the manifest unchanged.  Stated for recipe   *)
(* sets without cycles in which every recipe carries its file's name.      *)
(***************************************************************************)
C2_InstallOfRecordedIsNoOp ==
    (NamesMatch /\ Acyclic /\ op.kind = "install" /\ Has(disk0, op.arg))
        => /\ ~RanPipeline
           /\ result \in {"running", "ok"}
           /\ db = disk0
           /\ disk = disk0

\* Install(name) runs while name is recorded and one of its dependencies is not
C2_Witness ==
    /\ NamesMatch /\ Acyclic
    /\ op.kind = "install" /\ pc = "iwd" /\ Has(disk0, op.arg)
    /\ \E d \in DepsOf(op.arg) : ~Has(disk0, d)


(***************************************************************************)
(* C3. When the dependency chain of the requested package contains a       *)
(* cycle, Install fails with a cyclic-dependency error and no package on   *)
(* a cycle is recorded when it ends.  Stated for an Install that starts    *)
(* from an empty manifest and in which no external step fails.             *)
(***************************************************************************)
ExternalFailures == { "RuntimeError", "CalledProcessError", "OSError" }

OnCycle == { m \in RecipeFiles : m \in DepClosure(m) }

C3_CycleIsRejected ==
    (pc = "idle" /\ op.kind = "install" /\ CyclicChain(op.arg) /\ disk0 = << >>
       /\ result \notin ExternalFailures)
        => /\ result = "CyclicDependencyError"
           /\ \A m \in OnCycle : ~Has(db, m) /\ ~Has(disk, m)

\* Install(A) is running for a package A that depends on itself through another
C3_Witness ==
    /\ op.kind = "install" /\ pc = "iwd" /\ disk0 = << >>
    /\ op.arg \in DepClosure(op.arg) /\ op.arg \notin DepsOf(op.arg)
    /\ Len(stack) = 3

(***************************************************************************)
(* C4. A build command of package P runs only in a state where every       *)
(* direct dependency D of P's recipe has an InstallRecord (so if D's       *)
(* installation fails, P is neither built nor recorded).                   *)
(***************************************************************************)
C4_DependenciesRecordedBeforeBuild ==
    pc = "build" => \A d \in DepsOf(cur) : Has(db, d)

\* the same, for recipe sets without cycles whose recipes carry their file's name
C4_WhenWellFormed == (NamesMatch /\ Acyclic) => C4_DependenciesRecordedBeforeBuild

\* the first build command of a package with a dependency is about to run
C4_Witness ==
    /\ pc = "build" /\ cmdi = 1 /\ DepsOf(cur) # {}
    /\ NamesMatch /\ Acyclic
    /\ \A d \in DepsOf(cur) : ~Has(disk0, d)

(***************************************************************************)
(* C5. A record is written (in memory or on disk) only by an install whose *)
(* unpack into the install root completed without error in that same       *)
(* execution of the pipeline; no failure path writes one.                  *)
(***************************************************************************)
\* the keys whose record m1 holds and m0 does not hold as it is
Written(m0, m1) == { k \in Keys(m1) : ~Has(m0, k) \/ Get(m0, k) # Get(m1, k) }

\* install_package_files returned in the pipeline that is running for file f
UnpackCompleted(f) ==
    \E i \in 1..Len(events) :
        /\ events[i] = << "unpacked", f >>
        /\ \A j \in (i + 1)..Len(events) : events[j][1] # "begin"

C5_RecordOnlyAfterUnpack ==
    [][ pc # "idle" =>
          \A k \in Written(db, db') \cup Written(disk, disk') :
              /\ cur \in RecipeFiles
              /\ k = recipes[cur].name
              /\ UnpackCompleted(cur) ]_vars

\* a record has just been written, after the unpack
C5_Witness ==
    /\ pc = "save" /\ cur \in RecipeFiles
    /\ Has(db, recipes[cur].name) /\ ~Has(disk, recipes[cur].name)
    /\ UnpackCompleted(cur)

(***************************************************************************)
(* C6. When a step of a package's install pipeline fails (pre-install      *)
(* hook, fetch, patch, build command, packaging, unpack, post-install      *)
(* hook), that package has no record afterwards, in memory or on disk,     *)
(* the manifest is as it was when the step started, and the pipeline       *)
(* removes nothing from the file system: what it wrote to the install      *)
(* root stays.                                                             *)
(***************************************************************************)
FallibleSteps ==
    { "pre_install", "fetch", "patch", "build", "package", "unpack", "post_install" }

Keeps(f0, f1) == f0.files \subseteq f1.files /\ f0.dirs \subseteq f1.dirs

\* a step of the pipeline fails
StepFails == pc \in FallibleSteps /\ pc' = "idle" /\ result' # "ok"

C6_FailedStepLeavesNoRecord ==
    [][ /\ StepFails
            => /\ db' = db /\ disk' = disk
               /\ ~Has(db', recipes[cur].name) /\ ~Has(disk', recipes[cur].name)
               /\ Keeps(fs, fs')
        /\ pc \in Range(InstallSteps) => Keeps(fs, fs') ]_vars

\* the same, for recipes that carry the name of their file
C6_WhenNamesMatch ==
    [][ NamesMatch =>
          /\ StepFails
                => /\ db' = db /\ disk' = disk
                   /\ ~Has(db', recipes[cur].name) /\ ~Has(disk', recipes[cur].name)
                   /\ Keeps(fs, fs')
          /\ pc \in Range(InstallSteps) => Keeps(fs, fs') ]_vars

\* a post-install hook has failed after the package's files were unpacked
C6_Witness ==
    /\ pc = "idle" /\ result = "CalledProcessError" /\ op.kind = "install"
    /\ events # << >> /\ events[Len(events)][1] = "post_install"
    /\ fs.files # fs0.files
    /\ ~Has(disk, op.arg)


(***************************************************************************)
(* C7. Unpacking an archive that holds an entry with an absolute name,     *)
(* at whatever position, fails and writes nothing.                         *)
(***************************************************************************)
HasAbsoluteEntry == \E i \in 1..Len(archive) : archive[i].abs

C7_AbsoluteEntryRejected ==
    (op.kind = "unpack" /\ HasAbsoluteEntry)
        => /\ result = "RuntimeError"
           /\ fs = fs0
           /\ tmp.created = << >>

\* the absolute entry came last, after entries that could have been written
C7_Witness ==
    /\ op.kind = "unpack" /\ Len(archive) = 3
    /\ archive[3].abs /\ ~archive[1].abs /\ ~archive[2].abs
    /\ archive[1].type = "file" /\ archive[1].comps # << "..", "x" >>
    /\ TestRoot \o archive[1].comps \notin fs0.files
    /\ result = "RuntimeError"

(***************************************************************************)
(* C8. Unpack writes nothing outside the install root, and an entry whose  *)
(* path leaves the install root (an absolute one, or one that climbs out   *)
(* through "..") makes it fail.                                            *)
(***************************************************************************)
Escapes(m) == ~IsPrefix(target_root, Target(target_root, m))

NewPaths(f0, f1) == (f1.files \ f0.files) \cup (f1.dirs \ f0.dirs)

C8_NothingWrittenOutsideRoot ==
    op.kind = "unpack"
        => /\ \A p \in NewPaths(fs0, fs) : IsPrefix(target_root, p)
           /\ (\E i \in 1..Len(archive) : Escapes(archive[i])) => result # "ok"

\* an archive with an entry that climbs out of the install root was unpacked
C8_Witness ==
    /\ op.kind = "unpack"
    /\ \E i \in 1..Len(archive) : Escapes(archive[i]) /\ ~archive[i].abs
    /\ ~HasAbsoluteEntry

(***************************************************************************)
(* C9. With the real system root as the recorded install root, Remove      *)
(* deletes only paths that lie under an allow-listed directory, component  *)
(* by component; every other recorded path is left untouched.              *)
(***************************************************************************)
Deleted(f0, f1) == (f0.files \ f1.files) \cup (f0.dirs \ f1.dirs)

C9_RemoveStaysInAllowList ==
    (op.kind = "remove" /\ Has(disk0, op.arg)
       /\ Get(disk0, op.arg).installed_root = SysRoot)
        => \A p \in Deleted(fs0, fs) : AllowedStrict(p)

\* Remove has deleted files of a package recorded with the system root
C9_Witness ==
    /\ op.kind = "remove" /\ pc = "idle" /\ result = "ok"
    /\ Has(disk0, op.arg) /\ Get(disk0, op.arg).installed_root = SysRoot
    /\ \E p \in Deleted(fs0, fs) : AllowedStrict(p)

(***************************************************************************)
(* C10. For a package without dependencies, a successful Install followed  *)
(* at once by Remove leaves under the install root exactly the files that  *)
(* were there before the Install, whatever the root held.                  *)
(***************************************************************************)
\* Remove(name) returned after a successful Install(name), name without
\* dependencies, and no deletion failed
RoundTripDone ==
    /\ pc = "idle" /\ op.kind = "remove" /\ result = "ok"
    /\ prev = [kind |-> "install", arg |-> op.arg, result |-> "ok", fs0 |-> prev.fs0]
    /\ op.arg \in RecipeFiles /\ recipes[op.arg].deps = << >>
    /\ Has(disk0, op.arg)
    /\ ~DeletionFailed

C10_InstallRemoveRoundTrip ==
    RoundTripDone => FilesUnder(fs, target_root) = FilesUnder(prev.fs0, target_root)

\* the same, when the root held none of the paths the package installs
C10_WhenRootHeldNone ==
    (/\ RoundTripDone
     /\ \A f \in UNION Range(recipes[op.arg].commands) :
            target_root \o f \notin prev.fs0.files)
        => FilesUnder(fs, target_root) = FilesUnder(prev.fs0, target_root)

\* the round trip ran for a package that installs files
C10_Witness ==
    /\ pc = "idle" /\ op.kind = "remove" /\ result = "ok"
    /\ prev.kind = "install" /\ prev.arg = op.arg /\ prev.result = "ok"
    /\ op.arg \in RecipeFiles /\ recipes[op.arg].deps = << >>
    /\ Has(disk0, op.arg) /\ ~Has(disk, op.arg)
    /\ FilesUnder(fs0, target_root) # FilesUnder(fs, target_root)


(***************************************************************************)
(* C11. After a successful Install of a package without dependencies, its  *)
(* record has the recipe's version and lists exactly the relative paths of *)
(* the files the build commands staged (no directory entries), and each    *)
(* of them exists under the install root; after Remove the manifest has no *)
(* key for the package and none of those files exists.                     *)
(***************************************************************************)
\* the files the build commands of recipe file f write into the staging root
StagedBy(f) == UNION Range(recipes[f].commands)

\* Install(name) of a package without dependencies ran its pipeline and returned
InstalledAlone ==
    /\ pc = "idle" /\ op.kind = "install" /\ result = "ok"
    /\ op.arg \in RecipeFiles /\ recipes[op.arg].deps = << >>
    /\ NamesMatch /\ ~Has(disk0, op.arg)

\* Remove(name) of a recorded package without dependencies returned, and no
\* deletion failed
RemovedAlone ==
    /\ pc = "idle" /\ op.kind = "remove" /\ result = "ok"
    /\ op.arg \in RecipeFiles /\ recipes[op.arg].deps = << >>
    /\ NamesMatch /\ Has(disk0, op.arg)
    /\ ~DeletionFailed

C11_RecordListsStagedFiles ==
    /\ InstalledAlone
         => /\ Has(db, op.arg) /\ Has(disk, op.arg)
            /\ Get(db, op.arg).version = recipes[op.arg].version
            /\ Range(Get(db, op.arg).files) = StagedBy(op.arg)
            /\ \A f \in StagedBy(op.arg) : target_root \o f \in fs.files
    /\ RemovedAlone
         => /\ ~Has(db, op.arg) /\ ~Has(disk, op.arg)
            /\ \A f \in StagedBy(op.arg) : target_root \o f \notin fs.files

\* the same, with the list holding the staged files and the directories above them
C11_UpToDirectories ==
    /\ InstalledAlone
         => /\ Has(db, op.arg) /\ Has(disk, op.arg)
            /\ Get(db, op.arg).version = recipes[op.arg].version
            /\ Range(Get(db, op.arg).files) = StagedBy(op.arg) \cup StagedDirs(StagedBy(op.arg))
            /\ \A f \in StagedBy(op.arg) : target_root \o f \in fs.files
    /\ RemovedAlone
         => /\ ~Has(db, op.arg) /\ ~Has(disk, op.arg)
            /\ \A f \in StagedBy(op.arg) : target_root \o f \notin fs.files

\* a package without dependencies has just been installed
C11_Witness == InstalledAlone /\ StagedBy(op.arg) # {} /\ Has(disk, op.arg)


(***************************************************************************)
(* C12. After Install(name) returns successfully a record exists under     *)
(* the requested name, and every key of the manifest is a name packages    *)
(* are installed, looked up and removed by, also for a recipe whose name   *)
(* field differs from the name of its file.                                *)
(***************************************************************************)
InstallReturned == pc = "idle" /\ op.kind = "install" /\ result = "ok"

C12_RecordUnderRequestedName ==
    InstallReturned
        => /\ Has(db, op.arg) /\ Has(disk, op.arg)
           /\ \A k \in Keys(db) : k \in RecipeFiles

\* the same, for recipes that carry the name of their file
C12_WhenNamesMatch == NamesMatch => C12_RecordUnderRequestedName

\* Install returned for a recipe whose name field is not its file's name
C12_Witness ==
    /\ InstallReturned /\ op.arg \in RecipeFiles
    /\ recipes[op.arg].name # op.arg
    /\ Has(disk, recipes[op.arg].name)


(***************************************************************************)
(* C13. Remove(name) for a name without record is a no-op: in every step   *)
(* of it no hook runs, nothing is deleted from the install root, the bin   *)
(* directory or the staging area, the manifest stays as it was in memory   *)
(* and on disk, and it returns without error.                              *)
(***************************************************************************)
C13_RemoveOfUnrecordedIsNoOp ==
    [][ (op'.kind = "remove" /\ ~Has(disk0', op'.arg))
          => /\ UNCHANGED << fs, bindir, destdir, packages, disk, torn >>
             /\ db' = disk
             /\ events' = << >>
             /\ result' \in {"running", "ok"} ]_vars

\* Remove returned for a name without record while other packages were installed
C13_Witness ==
    /\ pc = "idle" /\ op.kind = "remove" /\ result = "ok"
    /\ ~Has(disk0, op.arg) /\ disk0 # << >>
    /\ op.arg \in RecipeFiles
    /\ bindir # {} /\ fs.files # {}


(***************************************************************************)
(* C14. Remove deletes the record last: while the pre-remove hooks, the    *)
(* file deletion, the bin-directory cleanup, the post-remove hooks and the *)
(* staging-directory deletion run, the record is present in memory and on  *)
(* disk; it leaves memory only at the del statement that follows them and  *)
(* leaves the disk only at the save after it.                              *)
(***************************************************************************)
CleanupSteps == { "rm_pre", "rm_files", "rm_bin", "rm_post", "rm_destdir", "rm_del" }

C14_RecordDeletedLast ==
    [][ /\ pc' \in CleanupSteps => Has(db', cur') /\ Has(disk', cur')
        /\ pc \in CleanupSteps \cup {"rm_get", "rm_save", "rm_ret"} =>
             \A k \in Keys(db) \cup Keys(disk) :
                /\ (Has(db, k) /\ ~Has(db', k)) => (pc = "rm_del" /\ k = cur)
                /\ (Has(disk, k) /\ ~Has(disk', k)) => (pc = "rm_save" /\ ~Has(db, cur)) ]_vars

\* the record is about to be deleted, after the files were
C14_Witness ==
    /\ pc = "rm_del" /\ Has(db, cur) /\ Has(disk, cur)
    /\ fs.files # fs0.files
    /\ \E i \in 1..Len(events) : events[i] = << "post_remove", cur >>


(***************************************************************************)
(* C15. Remove never deletes a file that belongs to another package: no    *)
(* step of Remove(A) deletes an install-root file or a bin-directory file  *)
(* listed in the record of another package B, also when A and B list the   *)
(* same path.                                                              *)
(***************************************************************************)
\* the install-root files the record e lists
ListedFiles(e) == { Resolve(e.installed_root, e.files[i]) : i \in 1..Len(e.files) }

C15_RemoveSparesOtherPackages ==
    [][ op.kind = "remove" =>
          \A i \in 1..Len(db) :
              db[i].key # op.arg =>
                 /\ \A f \in ListedFiles(db[i]) : f \in fs.files => f \in fs'.files
                 /\ \A b \in db[i].bin_files : b \in bindir => b \in bindir' ]_vars

\* the same, for packages whose records share no file and no binary name
C15_WhenNothingShared ==
    [][ (op.kind = "remove" /\ Has(db, op.arg)) =>
          \A i \in 1..Len(db) :
              (/\ db[i].key # op.arg
               /\ ListedFiles(db[i]) \cap ListedFiles(Get(db, op.arg)) \cap fs.files = {}
               /\ db[i].bin_files \cap Get(db, op.arg).bin_files = {}) =>
                 /\ \A f \in ListedFiles(db[i]) : f \in fs.files => f \in fs'.files
                 /\ \A b \in db[i].bin_files : b \in bindir => b \in bindir' ]_vars

\* Remove(A) ran its file loop while another package with a common path was recorded
C15_Witness ==
    /\ op.kind = "remove" /\ pc = "rm_bin" /\ Has(db, op.arg)
    /\ \E i \in 1..Len(db) :
          /\ db[i].key # op.arg
          /\ ListedFiles(db[i]) \cap ListedFiles(Get(db, op.arg)) \cap fs0.files # {}


(***************************************************************************)
(* C16. Upgrade(name) is Remove(name) followed by Install(name) when name  *)
(* has a record, and Install(name) alone when it has none; after a         *)
(* successful Upgrade(name) a record for name exists, written by the       *)
(* Install that ran inside this Upgrade.                                   *)
(***************************************************************************)
RemovePositions == { "rm_get", "rm_ret" } \cup Range(RemoveSteps)

InstallPositions == { "iwd", "iwd_ret" } \cup Range(InstallSteps)

RemoveEvents == { "pre_remove", "rm_files", "delete", "post_remove" }

EventAt(step, file) == { i \in 1..Len(events) : events[i] = << step, file >> }

\* the remove part of the command is complete before its install part starts
RemoveCameFirst ==
    /\ EventAt("delete", op.arg) # {}
    /\ \A i \in 1..Len(events) :
          events[i][1] \in PipelineEvents => \E j \in EventAt("delete", op.arg) : j < i

C16_UpgradeIsRemoveThenInstall ==
    (op.kind = "upgrade" /\ pc # "rm_get") =>
        /\ Has(disk0, op.arg) =>
              /\ pc \in RemovePositions \cup InstallPositions \cup {"idle"}
              /\ (pc \in InstallPositions \/ (pc = "idle" /\ result = "ok")) => RemoveCameFirst
        /\ ~Has(disk0, op.arg) =>
              /\ pc \in InstallPositions \cup {"idle"}
              /\ \A i \in 1..Len(events) : events[i][1] \notin RemoveEvents
              /\ Keeps(fs0, fs)
        /\ (pc = "idle" /\ result = "ok") =>
              /\ Has(db, op.arg) /\ Has(disk, op.arg)
              /\ EventAt("record", op.arg) # {}

\* the same, for recipes that carry the name of their file
C16_WhenNamesMatch == NamesMatch => C16_UpgradeIsRemoveThenInstall

\* Upgrade returned for a package that had a record
C16_Witness ==
    /\ op.kind = "upgrade" /\ pc = "idle" /\ result = "ok"
    /\ Has(disk0, op.arg) /\ Has(disk, op.arg)
    /\ EventAt("rm_files", op.arg) # {}


(***************************************************************************)
(* C17. Upgrade(all) takes the packages recorded when it started, each     *)
(* once, in the manifest's order at that moment: the removes happen in     *)
(* that order whatever the dependencies and whatever the loop does to the  *)
(* manifest, the install of one package is complete before the next is     *)
(* removed, no listed package is built outside its turn, and after a       *)
(* successful run every one of them has a record again.                    *)
(***************************************************************************)
\* the keys of the manifest the command started with, in order
Keys0 == [i \in 1..Len(disk0) |-> disk0[i].key]

\* the packages whose record the command has deleted so far, in order
Turns == SelectSeq(events, LAMBDA e : e[1] = "delete")

C17_UpgradeAllInManifestOrder ==
    op.kind = "upgrade_all" =>
        /\ Len(Turns) <= Len(Keys0)
        /\ \A i \in 1..Len(Turns) : Turns[i][2] = Keys0[i]
        /\ \A i \in 2..Len(Turns) :
              \E r \in EventAt("record", Keys0[i - 1]) :
                 \A d \in EventAt("delete", Keys0[i]) : r < d
        /\ \A k \in Keys(disk0) :
              /\ Cardinality(EventAt("begin", k)) <= 1
              /\ \A b \in EventAt("begin", k) : \E d \in EventAt("delete", k) : d < b
        /\ (pc = "idle" /\ result = "ok") =>
              /\ Len(Turns) = Len(Keys0)
              /\ db = disk
              /\ \A k \in Keys(disk0) : Has(disk, k) /\ EventAt("record", k) # {}

\* Upgrade(all) returned after upgrading a package before the one it depends on
C17_Witness ==
    /\ op.kind = "upgrade_all" /\ pc = "idle" /\ result = "ok"
    /\ Len(Keys0) >= 2
    /\ Keys0[2] \in DepsOf(Keys0[1])
    /\ Len(Turns) = Len(Keys0)


(***************************************************************************)
(* C18. BuildOnly never touches the manifest or the install root: in every *)
(* step of it, whatever its outcome, the manifest in memory and on disk    *)
(* and the content of the install root stay as they were; it builds no     *)
(* package but the requested one and runs no lifecycle hook.               *)
(***************************************************************************)
BuildOnlyEvents == { "fetch", "patch", "build", "package" }

C18_BuildOnlyTouchesNothing ==
    [][ op'.kind = "build_only" =>
          /\ fs' = fs
          /\ disk' = disk
          /\ db' = disk
          /\ \A i \in 1..Len(events') :
                events'[i][2] = op'.arg /\ events'[i][1] \in BuildOnlyEvents ]_vars

\* BuildOnly packaged a recipe that has dependencies and hooks, none of them installed
C18_Witness ==
    /\ op.kind = "build_only" /\ pc = "idle" /\ result = "ok"
    /\ DepsOf(op.arg) # {} /\ recipes[op.arg].pre_install > 0
    /\ \A d \in DepsOf(op.arg) : ~Has(disk, d)
    /\ packages[recipes[op.arg].name] # << >>


(***************************************************************************)
(* C19. After every Install, Remove or Upgrade that returns successfully   *)
(* the manifest document on disk equals the mapping in memory: the two     *)
(* differ only between the insertion or deletion of a record and the       *)
(* rewrite of the file that follows it, or after a rewrite that failed,    *)
(* and that failure ends the command with the error.                       *)
(***************************************************************************)
Returned == pc = "idle" /\ result = "ok" /\ op.kind \in {"install", "remove", "upgrade", "upgrade_all"}

C19_DiskFollowsMemory ==
    /\ Returned => (disk = db /\ ~torn)
    /\ db # disk =>
          \/ pc \in {"save", "rm_save"}
          \/ pc = "idle" /\ result = "OSError"

\* the command inserted or deleted a record
ChangedManifest == \E i \in 1..Len(events) : events[i][1] \in {"record", "delete"}

\* the same, for the commands that inserted or deleted a record
C19_AfterAnyChange ==
    /\ (Returned /\ ChangedManifest) => (disk = db /\ ~torn)
    /\ db # disk =>
          \/ pc \in {"save", "rm_save"}
          \/ pc = "idle" /\ result = "OSError"

\* a command returned without touching a file that no load can parse
C19_Witness == Returned /\ torn /\ ~ChangedManifest


(***************************************************************************)
(* C20. A pipeline error of one package (recipe not found, fetch, patch or *)
(* build command failure) aborts only that package's branch: when          *)
(* Upgrade(all) ends with such an error, every recorded package other      *)
(* than the one that failed has been upgraded and is recorded.             *)
(***************************************************************************)
BranchSteps == { "fetch", "patch", "build" }

\* the command has ended with the error of a fetch, a patch or a build
\* command, or because a recipe was not found
BranchFailed ==
    /\ pc = "idle" /\ events # << >>
    /\ \/ result = "FileNotFoundError"
       \/ /\ result \in {"RuntimeError", "CalledProcessError"}
          /\ events[Len(events)][1] \in BranchSteps

\* the position in Keys0 of the package whose turn the loop was at: the one
\* whose record it deleted last
FailedTurn == Len(Turns)

\* the packages that come after the failed one and do not need it
Unaffected ==
    { j \in (FailedTurn + 1)..Len(Keys0) :
         Keys0[j] \in RecipeFiles /\ Keys0[FailedTurn] \notin DepClosure(Keys0[j]) }

C20_FailureAbortsOneBranch ==
    (op.kind = "upgrade_all" /\ BranchFailed /\ FailedTurn >= 1 /\ NamesMatch)
        => \A j \in Unaffected : EventAt("record", Keys0[j]) # {} /\ Has(disk, Keys0[j])

\* Upgrade(all) ended with the error of one recorded package while a later
\* recorded package that does not need it was still to come
C20_Witness ==
    /\ op.kind = "upgrade_all" /\ BranchFailed /\ FailedTurn >= 1
    /\ NamesMatch /\ Unaffected # {}
    /\ \E j \in Unaffected : Has(disk, Keys0[j])

(***************************************************************************)
(* C21. install_package_files returns a sorted list without duplicates of  *)
(* paths relative to the install root, and the list is exactly the set of  *)
(* paths the extraction wrote, also when entries of the archive overlap    *)
(* files the install root already held; Install stores this list as the    *)
(* record's file list.                                                     *)
(***************************************************************************)
\* the list is strictly increasing in the order of str
StrictlySorted(list) ==
    \A i \in 1..(Len(list) - 1) : StrLess(RelStr(list[i]), RelStr(list[i + 1]))

\* where the paths of a returned list lie
ListedPaths(root, list) == { Resolve(root, list[i]) : i \in 1..Len(list) }

\* install_package_files(archive, target_root) returned
UnpackReturned == op.kind = "unpack" /\ result = "ok"

C21_ListIsWhatWasWritten ==
    UnpackReturned
        => /\ StrictlySorted(tmp.created)
           /\ ListedPaths(target_root, tmp.created) \subseteq fs.files \cup fs.dirs
           /\ NewPaths(fs0, fs) \subseteq ListedPaths(target_root, tmp.created)

\* the same, for an archive that holds an entry for every directory above its entries
ListsItsDirectories ==
    \A i \in 1..Len(archive) :
        \A d \in Ancestors(Target(target_root, archive[i])) :
            IsPrefix(target_root, d) =>
                \E j \in 1..Len(archive) : Target(target_root, archive[j]) = d

C21_WhenDirectoriesAreListed ==
    (UnpackReturned /\ ListsItsDirectories)
        => /\ StrictlySorted(tmp.created)
           /\ ListedPaths(target_root, tmp.created) \subseteq fs.files \cup fs.dirs
           /\ NewPaths(fs0, fs) \subseteq ListedPaths(target_root, tmp.created)

\* an archive was unpacked over a file the install root already held
C21_Witness ==
    /\ UnpackReturned
    /\ Len(tmp.created) >= 2
    /\ \E p \in ListedPaths(target_root, tmp.created) : p \in fs0.files
    /\ NewPaths(fs0, fs) # {}

(***************************************************************************)
(* C22. The log of a package is append-only over any sequence of commands: *)
(* what a log file held before a step is a prefix of what it holds after   *)
(* it.  Every external command the engine runs for a package (a patch, a   *)
(* build command, a hook) is appended to the package's log when it is      *)
(* started, with its text and followed by its output.                      *)
(***************************************************************************)
\* no log file loses or changes what it held
LogsOnlyGrow == \A f \in DOMAIN logs : IsPrefix(logs[f], logs'[f])

\* this step started an external command
StartsCommand == proc' # proc /\ proc'.stage # "none"

\* the step appended e to the log of the package worked on, and nothing else
Appended(e) ==
    /\ cur \in RecipeFiles
    /\ logs'[recipes[cur].name] = Append(logs[recipes[cur].name], e)
    /\ \A f \in DOMAIN logs \ {recipes[cur].name} : logs'[f] = logs[f]

C22_LogHoldsEveryCommand ==
    [][ /\ LogsOnlyGrow
        /\ StartsCommand =>
             Appended([stage |-> proc'.stage, pkg |-> proc'.pkg, n |-> proc'.n,
                       output |-> TRUE]) ]_vars

\* what the log holds for the stage of a command: build commands with their
\* output, the hooks of an install with their text alone, nothing for the rest
LoggedAs(stage) ==
    CASE stage = "build" -> {TRUE}
      [] stage \in {"pre_install", "post_install"} -> {FALSE}
      [] OTHER -> {}

\* the same, for the build commands and the text of the install hooks only
C22_BuildCommandsAndInstallHooks ==
    [][ /\ LogsOnlyGrow
        /\ (StartsCommand /\ NamesMatch) =>
             IF LoggedAs(proc'.stage) = {}
             THEN logs' = logs
             ELSE \E o \in LoggedAs(proc'.stage) :
                     Appended([stage |-> proc'.stage, pkg |-> proc'.pkg, n |-> proc'.n,
                               output |-> o]) ]_vars

\* a build command of Install(n) has been appended to the log that a
\* BuildOnly(n) before it had written
C22_Witness ==
    /\ op.kind = "install" /\ prev.kind = "build_only" /\ prev.arg = op.arg
    /\ prev.result = "ok"
    /\ proc.stage = "build" /\ proc.pkg = op.arg /\ NamesMatch
    /\ Len(logs[op.arg]) >= 2
    /\ logs[op.arg][Len(logs[op.arg])] = [stage |-> "build", pkg |-> op.arg, n |-> proc.n,
                                          output |-> TRUE]

(***************************************************************************)
(* C23. Every build command, of Install and of BuildOnly, runs in the      *)
(* source tree and with an environment that holds the path of the          *)
(* package's staging directory, the package name and the package version.  *)
(***************************************************************************)
\* the engine has started a build command
BuildCommandStarted == proc.stage = "build"

RunsInSourceTree == proc.cwd = "src_dir"

HasStagingPath == proc.env.DESTDIR = recipes[proc.pkg].name

HasNameAndVersion ==
    /\ proc.env.GENPKG_NAME = recipes[proc.pkg].name
    /\ proc.env.GENPKG_VERSION = recipes[proc.pkg].version

C23_BuildEnvironment ==
    BuildCommandStarted => RunsInSourceTree /\ HasStagingPath /\ HasNameAndVersion

\* the same, with the name and the version asked of the commands of Install only
C23_NameAndVersionInInstall ==
    BuildCommandStarted
        => /\ RunsInSourceTree /\ HasStagingPath
           /\ op.kind # "build_only" => HasNameAndVersion

\* BuildOnly has started the second build command of a package
C23_Witness ==
    /\ op.kind = "build_only" /\ BuildCommandStarted /\ proc.n = 2
    /\ result = "running"

(***************************************************************************)
(* run_logged run alone, with the thread of its Spinner: the main thread   *)
(* runs the statements of run_logged, the spinner's thread runs spin().    *)
(* The call is run_logged(cmd, cwd=src_dir, log_file, env) for the first   *)
(* build command of recipe file f.                                         *)
(***************************************************************************)
RlCall(f) ==
    /\ pc = "idle" /\ rl_pc = "idle"
    /\ nops < maxops
    /\ recipes[f].commands # << >>
    /\ nops' = nops + 1
    /\ op' = [kind |-> "run_logged", arg |-> f]
    /\ result' = "running"
    /\ spinner' = NewSpinner
    /\ spin_pc' = "none"
    /\ rl_pc' = "start"
    /\ rl_exc' = "none"
    /\ UNCHANGED << world, logs, proc, store, disk, torn, db, pc, stack, visited, cur, cmdi,
                    tmp, queue, hist >>

\* spinner.start(): the thread is created and started; Thread.start raises
\* when no thread can be started, and run_logged is left before its try
SpinnerStart ==
    /\ rl_pc = "start"
    /\ \/ /\ spinner' = [spinner EXCEPT !.thread = "started"]
          /\ spin_pc' = "test"
          /\ rl_pc' = "open"
          /\ UNCHANGED result
       \/ /\ spinner' = [spinner EXCEPT !.thread = "unstarted"]
          /\ rl_pc' = "idle"
          /\ result' = "RuntimeError"
          /\ UNCHANGED spin_pc
    /\ UNCHANGED << world, rl_exc, logs, proc, store, disk, torn, db, pc, op, stack, visited,
                    cur, cmdi, tmp, queue, nops, hist >>

\* with open(log_file, "a") as lf: lf.write("$ cmd"); Popen(cmd, stdout=lf, stderr=lf)
RlOpen ==
    /\ rl_pc = "open"
    /\ \/ /\ logs' = [logs EXCEPT ![recipes[op.arg].name] =
                         Append(@, [stage |-> "build", pkg |-> op.arg, n |-> 1, output |-> TRUE])]
          /\ rl_pc' = "wait"
          /\ UNCHANGED rl_exc
       \/ /\ rl_exc' = "OSError"
          /\ rl_pc' = "stop"
          /\ UNCHANGED logs
    /\ UNCHANGED << world, spinner, spin_pc, proc, store, disk, torn, db, pc, op, stack, visited,
                    cur, cmdi, tmp, queue, nops, result, hist >>

\* ret = proc.wait(); if ret != 0: raise CalledProcessError.  The command
\* that ends with 0 has written its files below DESTDIR
RlWait ==
    /\ rl_pc = "wait"
    /\ \/ /\ destdir' = [destdir EXCEPT ![recipes[op.arg].name] =
                            [exists |-> TRUE, files |-> @.files \cup recipes[op.arg].commands[1]]]
          /\ UNCHANGED rl_exc
       \/ /\ rl_exc' = "CalledProcessError"
          /\ UNCHANGED destdir
    /\ rl_pc' = "stop"
    /\ UNCHANGED << world, spinner, spin_pc, logs, proc, fs, packages, bindir, disk, torn, db,
                    pc, op, stack, visited, cur, cmdi, tmp, queue, nops, result, hist >>

\* finally: spinner.stop(), up to self._stop.set()
SpinnerStop ==
    /\ rl_pc = "stop"
    /\ IF spinner.thread # "none"
       THEN spinner' = [spinner EXCEPT !.stop = TRUE] /\ rl_pc' = "join"
       ELSE UNCHANGED spinner /\ rl_pc' = "clear"
    /\ UNCHANGED << world, spin_pc, rl_exc, logs, proc, store, disk, torn, db, pc, op, stack,
                    visited, cur, cmdi, tmp, queue, nops, result, hist >>

\* a slip: stop() sets the event and does not wait for the thread
SpinnerJoinDoesNotWait ==
    /\ rl_pc = "join"
    /\ rl_pc' = "clear"
    /\ UNCHANGED << world, spinner, spin_pc, rl_exc, logs, proc, store, disk, torn, db, pc, op,
                    stack, visited, cur, cmdi, tmp, queue, nops, result, hist >>

\* self._thread.join(): returns once the thread has ended
SpinnerJoin ==
    /\ rl_pc = "join"
    /\ spin_pc = "done"
    /\ rl_pc' = "clear"
    /\ UNCHANGED << world, spinner, spin_pc, rl_exc, logs, proc, store, disk, torn, db, pc, op,
                    stack, visited, cur, cmdi, tmp, queue, nops, result, hist >>

\* stop() clears the line and returns; run_logged returns, or raises what is pending
RlReturn ==
    /\ rl_pc = "clear"
    /\ rl_pc' = "idle"
    /\ result' = IF rl_exc = "none" THEN "ok" ELSE rl_exc
    /\ UNCHANGED << world, spinner, spin_pc, rl_exc, logs, proc, store, disk, torn, db, pc, op,
                    stack, visited, cur, cmdi, tmp, queue, nops, hist >>

\* spin(): while not self._stop.is_set()
SpinTest ==
    /\ spin_pc = "test"
    /\ spin_pc' = IF spinner.stop THEN "done" ELSE "write"
    /\ UNCHANGED << world, spinner, rl_pc, rl_exc, logs, proc, store, disk, torn, db, ctl, hist >>

\* sys.stdout.write(... next(self.frames)); sys.stdout.flush().  A write
\* that raises ends the thread
SpinWrite ==
    /\ spin_pc = "write"
    /\ \/ /\ spinner' = [spinner EXCEPT !.frame = (@ % Len(SpinnerFrames)) + 1]
          /\ spin_pc' = "sleep"
       \/ /\ spin_pc' = "done"
          /\ UNCHANGED spinner
    /\ UNCHANGED << world, rl_pc, rl_exc, logs, proc, store, disk, torn, db, ctl, hist >>

\* time.sleep(0.1)
SpinSleep ==
    /\ spin_pc = "sleep"
    /\ spin_pc' = "test"
    /\ UNCHANGED << world, spinner, rl_pc, rl_exc, logs, proc, store, disk, torn, db, ctl, hist >>

\* the steps of the spinner's thread
Spin == SpinTest \/ SpinWrite \/ SpinSleep

\* the steps of the main thread inside run_logged
RunLoggedStep == SpinnerStart \/ RlOpen \/ RlWait \/ SpinnerStop \/ SpinnerJoin \/ RlReturn

NextSpinner ==
    \/ \E f \in RecipeFiles : RlCall(f)
    \/ SpinnerStart
    \/ RlOpen
    \/ RlWait
    \/ SpinnerStop
    \/ SpinnerJoin
    \/ RlReturn
    \/ SpinTest
    \/ SpinWrite
    \/ SpinSleep

\* both threads are scheduled as long as they can run
SpecSpinner ==
    Init /\ [][NextSpinner]_vars /\ WF_vars(Spin) /\ WF_vars(RunLoggedStep)

(***************************************************************************)
(* C24. The thread of the spinner never outlives the operation it          *)
(* annotates: whichever way run_logged is left, by return or by exception, *)
(* stop() has been called and has returned only after the thread ended;    *)
(* stop(), once called, returns; and no step of the thread changes the     *)
(* log, the staging directories, the archives, the install root or the     *)
(* manifest.                                                               *)
(***************************************************************************)
\* stop() has returned from join, or run_logged has been left
StopReturned == rl_pc \in {"clear", "idle"}

ThreadEndedByThen ==
    (StopReturned /\ spinner.thread = "started") => (spinner.stop /\ spin_pc = "done")

\* a step of the spinner's thread
ThreadStep == spin_pc \in {"test", "write", "sleep"} /\ (spin_pc' # spin_pc \/ spinner' # spinner)

ThreadTouchesNothing ==
    ThreadStep => UNCHANGED << logs, proc, store, disk, torn, db, result, rl_exc >>

C24_SpinnerEndsWithItsOperation ==
    /\ []ThreadEndedByThen
    /\ [][ThreadTouchesNothing]_vars
    /\ (rl_pc = "stop") ~> (rl_pc = "idle")

\* run_logged was left by the exception of a failed command, after the
\* thread had shown frames, and the thread has ended
C24_Witness ==
    /\ op.kind = "run_logged" /\ rl_pc = "idle" /\ result = "CalledProcessError"
    /\ spinner.thread = "started" /\ spinner.frame >= 2
    /\ spin_pc = "done"

(***************************************************************************)
(* C25. Remove processes the recorded paths deepest first: of two paths of *)
(* the record's file list of which one lies below the other, the lower one *)
(* is processed first.  The root entry "." of the archive counts as lying  *)
(* above every other entry.                                                *)
(***************************************************************************)
\* in order, every path comes after every listed path that lies below it
DeepestFirst(order) ==
    \A i, j \in 1..Len(order) : IsProperPrefix(order[i], order[j]) => j < i

\* the same, the entry of the root itself left aside
DeepestFirstBelowRoot(order) ==
    \A i, j \in 1..Len(order) :
        (order[i] # << >> /\ IsProperPrefix(order[i], order[j])) => j < i

\* remove is about to walk the recorded files
AtRemovalLoop == pc = "rm_files" /\ Has(db, cur)

C25_RemovesDeepestFirst ==
    AtRemovalLoop => DeepestFirst(RemovalOrder(Get(db, cur).files))

C25_BelowTheRootEntry ==
    AtRemovalLoop => DeepestFirstBelowRoot(RemovalOrder(Get(db, cur).files))

\* remove is about to walk a list that holds the root entry, a directory and a file in it
C25_Witness ==
    /\ AtRemovalLoop
    /\ \E d, f \in Range(Get(db, cur).files) : d # << >> /\ IsProperPrefix(d, f)
    /\ << >> \in Range(Get(db, cur).files)

(***************************************************************************)
(* C26. Remove swallows the failures of its file deletions one by one:     *)
(* whichever recorded paths cannot be deleted, the loop still deletes the  *)
(* others and does not fail, the later steps of remove run, and when the   *)
(* hooks and the save go through the record is deleted and remove returns  *)
(* without error.                                                          *)
(***************************************************************************)
\* the recorded files of the record e that still lie where e lists them
StillThere(fsys, e) == { p \in ListedFiles(e) : p \in fsys.files }

\* the loop ends at the next statement of remove whatever could not be
\* deleted, and what it leaves is what some set of failed deletions leaves
LoopSwallowsFailures ==
    pc = "rm_files" =>
        /\ pc' = "rm_bin" /\ result' = result
        /\ LET meta == Get(db, cur) IN
           \E bad \in SUBSET RecordedFiles(fs, meta) :
              /\ fs' = RemoveFrom(fs, meta.installed_root, RemovalOrder(meta.files), 1, bad)
              /\ (events'[Len(events')] = << "rm_failed", cur >>) <=> bad # {}

\* after the loop only a hook or the save can make remove fail
LaterStepsRun ==
    (pc \in {"rm_bin", "rm_destdir", "rm_del"}) => (pc' = AfterRemoveStep(pc) /\ result' = result)

\* remove has returned: the record is gone, in memory and on disk
RecordGoneAtReturn == pc = "rm_ret" => (~Has(db, cur) /\ ~Has(disk, cur))

C26_DeletionFailuresAreSwallowed ==
    [][ LoopSwallowsFailures /\ LaterStepsRun /\ RecordGoneAtReturn ]_vars

\* Remove returned without error although one recorded file could not be
\* deleted, while another one was
C26_Witness ==
    /\ op.kind = "remove" /\ pc = "idle" /\ result = "ok"
    /\ DeletionFailed
    /\ Has(disk0, op.arg) /\ ~Has(disk, op.arg)
    /\ StillThere(fs, Get(disk0, op.arg)) # {}
    /\ StillThere(fs, Get(disk0, op.arg)) # StillThere(fs0, Get(disk0, op.arg))

(***************************************************************************)
(* C27. The build is sequential and fail-fast: the patches are applied in  *)
(* list order, all of them before the first build command; the build       *)
(* commands run in recipe order; and once a patch or a build command has   *)
(* ended with a status other than 0, the engine runs nothing more: no      *)
(* later patch, build command, packaging, unpack or hook.                  *)
(***************************************************************************)
\* the place of a step in the pipeline of a package
Rank(step) ==
    CASE step = "begin" -> 0
      [] step = "pre_install" -> 1
      [] step = "fetch" -> 2
      [] step = "patch" -> 3
      [] step = "build" -> 4
      [] step = "package" -> 5
      [] step \in {"unpack", "unpacked"} -> 6
      [] step = "post_install" -> 7
      [] step = "record" -> 8

\* the events of the pipeline that runs, or ran last: those after the last
\* event of another kind, and from the last "begin" on
RunStart ==
    LET S == { i \in 1..Len(events) : events[i][1] \notin PipelineEvents \/ events[i][1] = "begin" }
    IN IF S = {} THEN 1
       ELSE LET m == CHOOSE i \in S : \A j \in S : j <= i
            IN IF events[m][1] = "begin" THEN m ELSE m + 1

ThisRun == SubSeq(events, RunStart, Len(events))

\* how many commands of a stage this run has started
StartedOf(stage) == Len(SelectSeq(ThisRun, LAMBDA e : e[1] = stage))

\* the steps of a run follow the order of the pipeline
InPipelineOrder ==
    \A i \in 1..(Len(ThisRun) - 1) : Rank(ThisRun[i][1]) <= Rank(ThisRun[i + 1][1])

\* the command just started is the next of its list
InListOrder ==
    (proc.stage \in {"patch", "build"} /\ events # << >>
        /\ events[Len(events)] = << proc.stage, proc.pkg >>) =>
        /\ proc.n = StartedOf(proc.stage)
        /\ proc.n <= (IF proc.stage = "patch" THEN recipes[proc.pkg].patches
                      ELSE Len(recipes[proc.pkg].commands))

\* a build command runs only after every patch, packaging only after every build command
AllBefore ==
    /\ (ThisRun # << >> /\ StartedOf("build") > 0 /\ ThisRun[1][2] \in RecipeFiles)
          => StartedOf("patch") = recipes[ThisRun[1][2]].patches
    /\ (ThisRun # << >> /\ StartedOf("package") > 0 /\ ThisRun[1][2] \in RecipeFiles)
          => StartedOf("build") = Len(recipes[ThisRun[1][2]].commands)

\* the patch or build command that failed is the last thing the command did
FailFast ==
    (proc.stage \in {"patch", "build"} /\ proc.ret # 0)
        => /\ pc = "idle" /\ result = "CalledProcessError"
           /\ events[Len(events)] = << proc.stage, proc.pkg >>
           /\ StartedOf(proc.stage) = proc.n

C27_SequentialAndFailFast == InPipelineOrder /\ InListOrder /\ AllBefore /\ FailFast

\* the second patch of a package failed after its first had been applied
C27_Witness ==
    /\ proc.stage = "patch" /\ proc.n = 2 /\ proc.ret # 0
    /\ op.kind = "install" /\ pc = "idle"
    /\ StartedOf("patch") = 2 /\ StartedOf("build") = 0

\* the second build command of a package failed after its first had run
C27_WitnessBuild ==
    /\ proc.stage = "build" /\ proc.n = 2 /\ proc.ret # 0
    /\ pc = "idle" /\ StartedOf("build") = 2

(***************************************************************************)
(* C28. Within one Install the build pipeline of a package runs at most    *)
(* once, whatever the shape of the dependency graph, and the packages are  *)
(* built, and their records created, in the post-order of a depth-first    *)
(* walk that takes the dependencies in recipe list order.                  *)
(***************************************************************************)
RECURSIVE Walk(_, _)
RECURSIVE WalkDeps(_, _, _)
\* the depth-first walk from n: st.order lists the packages to build in
\* post-order, st.seen those entered, st.keys the keys of the manifest,
\* st.ok turns FALSE at a name without recipe
Walk(n, st) ==
    IF ~st.ok \/ n \in st.seen THEN st
    ELSE IF n \notin RecipeFiles THEN [st EXCEPT !.ok = FALSE]
    ELSE LET after == WalkDeps(n, 1, [st EXCEPT !.seen = @ \cup {n}])
         IN IF ~after.ok \/ n \in after.keys THEN after
            ELSE [after EXCEPT !.order = Append(@, n), !.keys = @ \cup {recipes[n].name}]

WalkDeps(n, i, st) ==
    IF i > Len(recipes[n].deps) \/ ~st.ok THEN st
    ELSE LET d == recipes[n].deps[i]
         IN WalkDeps(n, i + 1, IF d \in st.keys THEN st ELSE Walk(d, st))

\* the packages Install(n) is to build, in post-order, from the manifest it found
PostOrder(n) ==
    Walk(n, [order |-> << >>, seen |-> {}, keys |-> Keys(disk0), ok |-> TRUE]).order

\* the packages of the events of one step, in the order of the events
FilesOf(step) ==
    LET es == SelectSeq(events, LAMBDA e : e[1] = step)
    IN [i \in 1..Len(es) |-> es[i][2]]

NoRepeat(seq) == \A i, j \in 1..Len(seq) : seq[i] = seq[j] => i = j

C28_OncePerInstallInPostOrder ==
    op.kind = "install"
        => /\ NoRepeat(FilesOf("begin"))
           /\ NoRepeat(FilesOf("record"))
           /\ IsPrefix(FilesOf("begin"), PostOrder(op.arg))
           /\ IsPrefix(FilesOf("record"), FilesOf("begin"))
           /\ (pc = "idle" /\ result = "ok") => FilesOf("record") = PostOrder(op.arg)

\* Install built a package after its two dependencies, which share a
\* dependency that was built once, before both
C28_Witness ==
    /\ op.kind = "install" /\ pc = "idle" /\ result = "ok"
    /\ Len(FilesOf("record")) = 3
    /\ LET o == FilesOf("record")
       IN /\ o[3] = op.arg
          /\ o[1] \in DepsOf(o[2]) /\ {o[1], o[2]} \subseteq DepsOf(o[3])

\* Install built two dependencies that do not need each other, in list order
C28_WitnessListOrder ==
    /\ op.kind = "install" /\ pc = "idle" /\ result = "ok"
    /\ Len(FilesOf("record")) = 3
    /\ LET o == FilesOf("record")
       IN /\ recipes[op.arg].deps = << o[1], o[2] >>
          /\ DepsOf(o[1]) = {} /\ DepsOf(o[2]) = {}

(***************************************************************************)
(* C29. Install terminates for every recipe set, also with packages that   *)
(* depend on themselves or on each other in a cycle, when every external   *)
(* command and every fetch terminates: the depth of the dependency walk is *)
(* bounded by the number of distinct package names.                        *)
(***************************************************************************)
\* the calls of _install_with_deps that are past the visited guard
PastGuard == { k \in 1..Len(stack) : stack[k].i >= 1 }

\* the calls past the guard are for distinct names, all of them visited,
\* and at most one call is not past it
WalkIsBounded ==
    /\ \A j, k \in PastGuard : stack[j].name = stack[k].name => j = k
    /\ \A k \in PastGuard : stack[k].name \in visited
    /\ visited \subseteq RecipeFiles
    /\ Len(stack) <= Cardinality(RecipeFiles) + 1

InstallRuns == op.kind = "install" /\ pc # "idle"

C29_InstallTerminates ==
    /\ []WalkIsBounded
    /\ InstallRuns ~> (pc = "idle")

\* Install of a package whose dependencies form a cycle has returned
C29_Witness ==
    /\ op.kind = "install" /\ pc = "idle" /\ result = "ok"
    /\ CyclicChain(op.arg) /\ op.arg \notin DepsOf(op.arg)
    /\ Len(FilesOf("record")) >= 2

(***************************************************************************)
(* C30. When the first build command of a build starts, in Install or in   *)
(* BuildOnly, the staging directory of the package exists and is empty, so *)
(* the archive packed afterwards holds only what the build commands of     *)
(* this run wrote, and nothing an earlier build of the same name left.     *)
(***************************************************************************)
\* the first build command of the package being built is about to start
AtFirstBuildCommand ==
    /\ pc \in {"build", "bo_build"} /\ cmdi = 1
    /\ Len(recipes[cur].commands) >= 1

\* package_destdir has just packed the staging directory of recipe file f
PackedOf(f) ==
    /\ events # << >> /\ events[Len(events)] = << "package", f >>
    /\ \/ pc = "copybin" /\ cur = f
       \/ pc = "idle" /\ op = [kind |-> "build_only", arg |-> f] /\ result = "ok"

StagingEmptyAtFirstCommand ==
    AtFirstBuildCommand =>
        /\ destdir[recipes[cur].name].exists
        /\ destdir[recipes[cur].name].files = {}

ArchiveHoldsThisRun ==
    \A f \in RecipeFiles :
        PackedOf(f) => packages[recipes[f].name] = package_destdir(StagedBy(f))

C30_StagingIsEmptyAtFirstCommand ==
    StagingEmptyAtFirstCommand /\ ArchiveHoldsThisRun

\* the same, for the builds whose reset deleted everything the staging
\* directory held
C30_WhenTheResetDeletedAll ==
    /\ AtFirstBuildCommand /\ destdir[recipes[cur].name].stale = {}
          => /\ destdir[recipes[cur].name].exists
             /\ destdir[recipes[cur].name].files = {}
    /\ \A f \in RecipeFiles :
          PackedOf(f) /\ destdir[recipes[f].name].stale = {}
              => packages[recipes[f].name] = package_destdir(StagedBy(f))

\* a first build command starts in a staging directory that an earlier
\* build of the same name had filled and the reset emptied
C30_Witness ==
    /\ AtFirstBuildCommand
    /\ destdir[recipes[cur].name].files = {}
    /\ prev.kind \in {"install", "build_only"} /\ prev.arg = cur
    /\ prev.result = "ok"

(***************************************************************************)
(* C33. Remove(name) changes the manifest only by deleting the key name:   *)
(* the record of every other package stays as it was, and Remove makes no  *)
(* reverse-dependency check, so it succeeds and leaves the dependents      *)
(* recorded also when a recorded package lists name as a dependency.       *)
(***************************************************************************)
\* a recorded package other than n whose recipe lists n as a dependency
DependentsOf(m, n) == { k \in Keys(m) \ {n} : n \in DepsOf(k) }

\* a step of remove leaves DB.data alone or deletes the one key from it,
\* and writes to the file nothing but DB.data
RemoveOnlyDeletesItsKey ==
    pc \in RemovePositions =>
        /\ db' = db \/ db' = DelKey(db, cur)
        /\ disk' = disk \/ disk' = db \/ torn'

\* the command Remove(name) has returned for a name that had a record
RemoveReturned ==
    /\ op.kind = "remove" /\ pc = "idle" /\ result = "ok"
    /\ Has(disk0, op.arg)

\* the file is then the file of before without the key: same records, same order
OthersUnchanged == RemoveReturned => disk = DelKey(disk0, op.arg) /\ ~torn

\* remove ends with success or with the failure of a hook or of the save,
\* whoever depends on the name
NoDependencyError ==
    op.kind = "remove" => result \in {"running", "ok", "CalledProcessError", "OSError"}

C33_RemoveDeletesOnlyItsKey ==
    /\ [][RemoveOnlyDeletesItsKey]_vars
    /\ []OthersUnchanged
    /\ []NoDependencyError

\* Remove(name) has returned while a recorded package depends on name,
\* and that package is still recorded
C33_Witness ==
    /\ RemoveReturned
    /\ DependentsOf(disk0, op.arg) # {}
    /\ DependentsOf(disk, op.arg) = DependentsOf(disk0, op.arg)
    /\ ~Has(disk, op.arg)

(***************************************************************************)
(* C34. A remove hook that exits non-zero is fatal to Remove and the       *)
(* record is kept: when a pre_remove hook fails no file has been deleted   *)
(* and the record stays; when a post_remove hook fails the files and the   *)
(* copies in BIN_DIR are already deleted, but the record and the staging   *)
(* directory stay, so the package still counts as installed.               *)
(***************************************************************************)
\* this step ran a remove hook, and the hook exited non-zero
RemoveHookFailed ==
    /\ pc \in {"rm_pre", "rm_post"}
    /\ events' # events
    /\ proc'.ret # 0

\* the exception leaves remove and the process; the record, the file and
\* the staging directory are as they were
HookFailureIsFatal ==
    RemoveHookFailed =>
        /\ pc' = "idle" /\ result' = "CalledProcessError"
        /\ proc'.stage = (IF pc = "rm_pre" THEN "pre_remove" ELSE "post_remove")
        /\ Has(db', cur) /\ db' = db /\ disk' = disk /\ torn' = torn
        /\ destdir' = destdir /\ fs' = fs /\ bindir' = bindir

\* up to the end of the pre_remove hooks remove has deleted nothing
NothingDeletedBeforeHooks ==
    pc \in {"rm_get", "rm_pre"} =>
        fs' = fs /\ bindir' = bindir /\ destdir' = destdir /\ db' = db /\ disk' = disk

\* when the post_remove hooks start the loops over the files and over the
\* copies in BIN_DIR are through: no copy is left, and no recorded file that
\* remove may delete and could delete
DeletedBeforePostHooks ==
    pc = "rm_post" =>
        LET meta == Get(db, cur) IN
        /\ \E i \in 1..Len(events) : events[i] = << "rm_files", cur >>
        /\ bindir \cap meta.bin_files = {}
        /\ Has(db, cur)
        /\ (~DeletionFailed /\ meta.installed_root # SysRoot)
              => \A i \in 1..Len(meta.files) :
                    Resolve(meta.installed_root, meta.files[i]) \notin fs.files

\* the command Remove(name) ended by a failed hook: name is still recorded
StillReportedInstalled ==
    (op.kind = "remove" /\ pc = "idle" /\ result = "CalledProcessError")
        => /\ proc.stage \in {"pre_remove", "post_remove"}
           /\ Has(disk, op.arg) /\ disk = disk0
           /\ proc.stage = "pre_remove" => fs = fs0

C34_WitnessPre ==
    /\ op.kind = "remove" /\ pc = "idle" /\ result = "CalledProcessError"
    /\ proc.stage = "pre_remove"
    /\ Has(disk, op.arg)
    /\ \E i \in 1..Len(Get(disk, op.arg).files) :
          Resolve(Get(disk, op.arg).installed_root, Get(disk, op.arg).files[i]) \in fs.files

(***************************************************************************)
(* C35. Upgrade is not transactional: when the Install step of             *)
(* Upgrade(name) fails after the Remove step succeeded, the package ends   *)
(* with no record and the files installed before are gone (the previous    *)
(* version is not restored), and the error reaches the caller.             *)
(***************************************************************************)
\* Upgrade(name) of a recorded name is in its Install step: remove has returned
InInstallOfUpgrade ==
    /\ op.kind = "upgrade" /\ Has(disk0, op.arg)
    /\ pc \in InstallPositions

\* this step raises out of the Install step of the upgrade
InstallOfUpgradeFails == InInstallOfUpgrade /\ pc' = "idle" /\ result' # "ok"

\* the files the record of before listed
FilesOfBefore ==
    LET meta == Get(disk0, op.arg)
    IN { Resolve(meta.installed_root, meta.files[i]) : i \in 1..Len(meta.files) }

\* nothing has been unpacked since the command began
NothingUnpacked == \A i \in 1..Len(events) : events[i][1] \notin {"unpack", "unpacked"}

\* while the Install step runs the record is gone from the file, and so are
\* the files of before that remove may delete and could delete, until an
\* archive is unpacked again
PreviousVersionGone ==
    InInstallOfUpgrade =>
        /\ ~Has(disk, op.arg) \/ (pc = "iwd_ret" /\ Has(db, op.arg))
        /\ (NothingUnpacked /\ ~DeletionFailed /\ Get(disk0, op.arg).installed_root # SysRoot)
              => FilesOfBefore \cap fs.files = {}

\* the failure ends the command with its exception; nothing puts the record
\* or the files back
NotRestored ==
    InstallOfUpgradeFails =>
        /\ result' # "running" /\ op' = op
        /\ ~Has(disk', op.arg)
        /\ \A f \in FilesOfBefore : f \in fs'.files => f \in fs.files \/ pc = "unpack"

C35_UpgradeIsNotTransactional ==
    /\ []PreviousVersionGone
    /\ [][NotRestored]_vars

\* the Install step of an upgrade has failed before it unpacked anything:
\* the name has no record and its files of before are gone
C35_Witness ==
    /\ op.kind = "upgrade" /\ pc = "idle" /\ result \notin {"ok", "running"}
    /\ Has(disk0, op.arg) /\ ~Has(disk, op.arg) /\ ~torn
    /\ \E i \in 1..Len(events) : events[i] = << "begin", op.arg >>
    /\ FilesOfBefore \cap fs0.files # {} /\ FilesOfBefore \cap fs.files = {}

(***************************************************************************)
(* C36. A manifest file that exists but cannot be parsed is loaded as an   *)
(* empty manifest without any error: every package recorded before is      *)
(* then treated as not installed, and the next successful Install or       *)
(* Remove rewrites the file so that it holds only the records created      *)
(* after the load.                                                         *)
(***************************************************************************)
\* a process starts: DB() loads the file
Loads == pc = "idle" /\ pc' # "idle"

\* the load gives the records of the file, none for a file that cannot be
\* parsed, and the command runs on
LoadedWithoutError ==
    Loads => /\ db' = disk /\ result' = "running"
             /\ torn => db' = << >> /\ torn'

\* the keys of DB.data were all recorded by this process
RecordedByThisProcess ==
    \A k \in Keys(db) :
        \E i \in 1..Len(events) :
            /\ events[i][1] = "record"
            /\ events[i][2] \in RecipeFiles /\ recipes[events[i][2]].name = k

\* while the file is still the one that could not be parsed, the process
\* knows only the records it made itself
KnowsOnlyItsOwnRecords == (torn /\ pc # "idle") => RecordedByThisProcess

\* the save that replaces the unparsable file writes DB.data
RewrittenFromMemory == (torn /\ ~torn') => (disk' = db /\ RecordedByThisProcess)

CallReturned(kind) == op.kind = kind /\ pc = "idle" /\ result = "ok"

RemoveLeavesTheFile ==
    (op.kind = "remove" /\ torn /\ pc # "idle") =>
        /\ torn' /\ disk' = disk /\ fs' = fs /\ db' = db
        /\ pc' = "idle" => result' = "ok"

C36_WitnessRemove == CallReturned("remove") /\ torn

(***************************************************************************)
(* C32. After Install(P) returns successfully, from any reachable state,   *)
(* every package in the transitive dependency closure of P has a record    *)
(* (not only the direct dependencies of P), also when a direct dependency  *)
(* was already recorded while one of its own dependencies had been         *)
(* removed.                                                                *)
(***************************************************************************)
\* Install(P) has returned for a recipe set without cycles in which every
\* recipe carries the name of its file
InstallReturnedWellFormed ==
    /\ CallReturned("install") /\ op.arg \in RecipeFiles
    /\ NamesMatch /\ Acyclic

C32_ClosureIsRecorded ==
    InstallReturnedWellFormed => \A m \in DepClosure(op.arg) : Has(disk, m)

\* every recorded package had its dependencies recorded
DependencyClosed(m) == \A k \in Keys(m) : DepsOf(k) \subseteq Keys(m)

\* the same for an Install that began with a manifest in which every
\* recorded package had its dependencies recorded
C32_WhenManifestWasClosed ==
    (InstallReturnedWellFormed /\ DependencyClosed(disk0))
        => \A m \in DepClosure(op.arg) : Has(disk, m)

\* the direct dependencies are recorded whatever the manifest was
C32_DirectDependencies ==
    InstallReturnedWellFormed => \A m \in DepsOf(op.arg) : Has(disk, m)

\* Install(P) has returned, P has a dependency that has a dependency P does
\* not name, and all of them are recorded
C32_Witness ==
    /\ InstallReturnedWellFormed
    /\ DepClosure(op.arg) # DepsOf(op.arg)
    /\ \A m \in DepClosure(op.arg) : Has(disk, m)
    /\ \E i \in 1..Len(events) : events[i] = << "record", op.arg >>

(***************************************************************************)
(* C37.  Version 0.9 and version 1.0 on the same recipes and commands.     *)
(***************************************************************************)
\* every recipe carries the name of its file
NamesAreFileNames == \A f \in RecipeFiles : recipes[f].name = f

\* a command both versions have has returned, and no step failed in a
\* command before it
CallCompared == pc = "idle" /\ op.kind \in Commands09 /\ v09.live

\* no step of the command of 1.0 failed; a recipe may not have been found
AllStepsSucceeded == result \in { "ok", "FileNotFoundError" }

\* the command of 1.0 ended in install_package_files: every fetch and every
\* external command had succeeded, and the archive had been written
UnpackFailed ==
    /\ result \notin { "ok", "running", "none" }
    /\ events # << >>
    /\ events[Len(events)][1] = "unpack"

CountIn(seq, x) == Cardinality({ i \in 1..Len(seq) : seq[i] = x })

\* each package was built as often by 1.0 as by 0.9
SameBuildCounts ==
    \A f \in RecipeFiles : CountIn(FilesOf("begin"), f) = CountIn(v09.builds, f)

SameKeys == Keys(disk) = Range(v09.keys)

RecordedIn(evs) == { evs[i][2] : i \in { j \in 1..Len(evs) : evs[j][1] = "record" } }

\* the mapping of a process holds what it loaded and what it recorded
\* itself: nothing the other process saved after the load enters it
MappingIsLoadedPlusOwn ==
    /\ Keys(db) \subseteq Keys(disk0) \cup RecordedIn(events)
    /\ Keys(other.db) \subseteq Keys(other.disk0) \cup RecordedIn(other.events)

\* a save of the running process that succeeds replaces the file by its mapping
SaveReplacesFile ==
    pc = "save" /\ pc' # "idle" /\ other' = other => disk' = db /\ db' = db

BothReturned ==
    /\ op.kind = "install" /\ pc = "idle" /\ result = "ok"
    /\ other.op.kind = "install" /\ other.pc = "idle" /\ other.result = "ok"

\* after both installs the file is the mapping of the process that saved last
FileIsOneMapping == BothReturned => disk = db \/ disk = other.db

\* a record of one process is in the file only if that process saved last
\* or the process that saved last had loaded it
LostUnlessLoaded ==
    BothReturned /\ disk = db
        => \A k \in RecordedIn(other.events) : k \in Keys(disk) <=> k \in Keys(disk0) \cup RecordedIn(events)

\* C31: the read-modify-write of installed.json is not atomic across
\* processes: a process saves what it loaded plus its own records, so after
\* two installs that both returned the file is the mapping of one process,
\* and a record of the other is lost unless that process had loaded it
C31_LostUpdate ==
    /\ []MappingIsLoadedPlusOwn
    /\ [][SaveReplacesFile]_vars
    /\ []FileIsOneMapping
    /\ []LostUnlessLoaded

\* both installs returned ok, each process recorded the package it was to
\* install, and the file holds only one of the two records
C31_Witness ==
    /\ BothReturned
    /\ op.arg # other.op.arg
    /\ RecordedIn(events) = {op.arg}
    /\ RecordedIn(other.events) = {other.op.arg}
    /\ Keys(disk) = {op.arg}
    /\ ~torn

====
